---- MODULE Spec2Model ----
(***************************************************************************)
(* Split-Ledger: balance engine and the expense / settlement / membership   *)
(* write paths that feed it.                                                *)
(*                                                                          *)
(* Money is modelled in integer cents: every Decimal in the program has at  *)
(* most two fractional digits (NUMERIC(12,2), schema INV-7), and Decimal    *)
(* addition, subtraction, comparison and min are exact on such values.      *)
(* A Python dict is modelled as the sequence of its items in insertion      *)
(* order, a list of rows as a sequence.                                     *)
(***************************************************************************)
EXTENDS Integers, Sequences, FiniteSets, TLC

(* ------------------------------ bounds --------------------------------- *)

MaxParties == 5
MaxBalance == 3
MaxUsers == 3
MaxApiUsers == 2
MaxAmount == 3
MaxApiAmount == 2
MaxExpenses == 1
MaxSettlements == 1
MaxServedInFlight == 1
MaxRowExpenses == 2
MaxRowAmount == 2
MaxParticipants == 4
MaxShareAmount == 9
MaxTokens == 2
MaxAuthTime == 3
RefreshLifetime == 1

Users == 1..MaxUsers
Amounts == 1..MaxAmount

EQUAL == "equal"
CUSTOM == "custom"
SplitModes == {EQUAL, CUSTOM}

(* Two of the six values of the Category enum; "other" is the default. *)
Categories == {"food", "other"}

(* --------------------------- generic helpers --------------------------- *)

None == "None"

(* The values datetime.now() takes when an expense is soft-deleted. *)
Times == {"t1", "t2"}

(* The values of the optional category parameter of GET /balances. *)
Filters == Categories \cup {None}

RECURSIVE SeqSum(_)
SeqSum(s) == IF s = <<>> THEN 0 ELSE s[1] + SeqSum(Tail(s))

Min(a, b) == IF a <= b THEN a ELSE b

(* --------------------- dict[int, Decimal] as item list ------------------ *)

Keys(d) == {d[k][1] : k \in DOMAIN d}

HasKey(d, uid) == \E k \in DOMAIN d : d[k][1] = uid

Get(d, uid) == d[CHOOSE k \in DOMAIN d : d[k][1] = uid][2]

Values(d) == [k \in DOMAIN d |-> d[k][2]]

(* balances[uid] += amt on a defaultdict(Decimal): a missing key is created
   with Decimal() = 0 and appended to the iteration order. *)
DictAdd(d, uid, amt) ==
    IF HasKey(d, uid)
    THEN [k \in DOMAIN d |-> IF d[k][1] = uid THEN <<uid, d[k][2] + amt>> ELSE d[k]]
    ELSE Append(d, <<uid, amt>>)

(* balances.setdefault(uid, default) *)
DictSetDefault(d, uid, default) ==
    IF HasKey(d, uid) THEN d ELSE Append(d, <<uid, default>>)

(* ------------------------------ simplify_debts -------------------------- *)

(* sorted(..., key=lambda x: x[1], reverse=True): Python's sort is stable also
   with reverse=True, so items with equal amounts keep their input order. *)
InsertDesc(sorted, x) ==
    LET after == {k \in DOMAIN sorted : sorted[k][2] >= x[2]}
        pos   == Cardinality(after)
    IN  SubSeq(sorted, 1, pos) \o <<x>> \o SubSeq(sorted, pos + 1, Len(sorted))

RECURSIVE SortedDesc(_)
SortedDesc(s) ==
    IF s = <<>> THEN <<>>
    ELSE InsertDesc(SortedDesc(SubSeq(s, 1, Len(s) - 1)), s[Len(s)])

(* mutant of IsCreditor: the filter written as amt >= 0 *)
IsCreditorOrZero(item) == item[2] >= 0

(* [... for uid, amt in balances.items() if amt > 0] *)
IsCreditor(item) == item[2] > 0

(* mutant of IsDebtor: the filter written as amt <= 0 *)
IsDebtorOrZero(item) == item[2] <= 0

(* [... for uid, amt in balances.items() if amt < 0] *)
IsDebtor(item) == item[2] < 0

Creditors(balances) == SortedDesc(SelectSeq(balances, IsCreditor))

(* mutant of Debtors: the list sorted on the signed balance, which puts the
   smallest debt first *)
DebtorsSmallestFirst(balances) ==
    LET neg    == SelectSeq(balances, IsDebtor)
        sorted == SortedDesc(neg)
    IN  [k \in DOMAIN sorted |-> <<sorted[k][1], 0 - sorted[k][2]>>]

Debtors(balances) ==
    LET neg == SelectSeq(balances, IsDebtor)
    IN  SortedDesc([k \in DOMAIN neg |-> <<neg[k][1], 0 - neg[k][2]>>])

(* mutant of TransferAmount: one cent is moved per iteration *)
TransferOneCent(credit, debt) == Min(Min(credit, debt), 1)

(* transfer = min(credit, debt) *)
TransferAmount(credit, debt) == Min(credit, debt)

(* mutant of AdvanceCursor: the cursor moves on whether or not the party's
   remaining amount reached zero *)
AdvanceAlways(idx, remaining) == idx + 1

(* if creditors[i][1] == Decimal("0"): i += 1   (likewise for j) *)
AdvanceCursor(idx, remaining) == IF remaining = 0 THEN idx + 1 ELSE idx

(* The while loop of simplify_debts; i and j are the 0-based cursors. *)
RECURSIVE SimplifyLoop(_, _, _, _, _)
SimplifyLoop(creditors, debtors, i, j, transactions) ==
    IF ~(i < Len(creditors) /\ j < Len(debtors)) THEN transactions
    ELSE LET cid      == creditors[i + 1][1]
             credit   == creditors[i + 1][2]
             did      == debtors[j + 1][1]
             debt     == debtors[j + 1][2]
             transfer == TransferAmount(credit, debt)
             creds2   == [creditors EXCEPT ![i + 1] = <<cid, credit - transfer>>]
             debts2   == [debtors EXCEPT ![j + 1] = <<did, debt - transfer>>]
             i2       == AdvanceCursor(i, creds2[i + 1][2])
             j2       == AdvanceCursor(j, debts2[j + 1][2])
         IN  SimplifyLoop(creds2, debts2, i2, j2,
                 Append(transactions,
                        [from_user_id |-> did, to_user_id |-> cid, amount |-> transfer]))

simplify_debts(balances) ==
    SimplifyLoop(Creditors(balances), Debtors(balances), 0, 0, <<>>)

(* ---------------------------- rows and queries -------------------------- *)
(* expense row   : [paid_by_user_id, amount, split_mode, category, deleted_at, splits]
   split row     : [user_id, amount]   (kept with its expense)
   settlement row: [paid_by_user_id, paid_to_user_id, amount]
   membership    : the member user ids in insertion order                    *)

IsDeleted(e) == e.deleted_at # None

get_active_expenses(exps, category) ==
    SelectSeq(exps, LAMBDA e : ~IsDeleted(e) /\ (category = None \/ e.category = category))

RECURSIVE ConcatSplits(_)
ConcatSplits(es) == IF es = <<>> THEN <<>> ELSE es[1].splits \o ConcatSplits(Tail(es))

(* mutant of get_splits_for_active_expenses: the category is not applied *)
get_splits_for_all_categories(exps, category) ==
    ConcatSplits(get_active_expenses(exps, None))

get_splits_for_active_expenses(exps, category) ==
    ConcatSplits(get_active_expenses(exps, category))

get_settlements(setts) == setts

get_member_ids(mems) == mems

IsMember(mems, uid) == \E k \in DOMAIN mems : mems[k] = uid

(* ----------------------------- compute_balances ------------------------- *)

(* mutant of CreditPayers: the payer is credited with his own share only *)
RECURSIVE CreditPayersOwnShare(_, _)
CreditPayersOwnShare(d, es) ==
    IF es = <<>> THEN d
    ELSE LET own == SelectSeq(es[1].splits, LAMBDA sp : sp.user_id = es[1].paid_by_user_id)
         IN  CreditPayersOwnShare(DictAdd(d, es[1].paid_by_user_id,
                                          SeqSum([k \in DOMAIN own |-> own[k].amount])),
                                  Tail(es))

(* Step 1: balances[expense.paid_by_user_id] += expense.amount *)
RECURSIVE CreditPayers(_, _)
CreditPayers(d, es) ==
    IF es = <<>> THEN d
    ELSE CreditPayers(DictAdd(d, es[1].paid_by_user_id, es[1].amount), Tail(es))

(* Step 2: balances[split.user_id] -= split.amount *)
RECURSIVE DebitSplits(_, _)
DebitSplits(d, sps) ==
    IF sps = <<>> THEN d
    ELSE DebitSplits(DictAdd(d, sps[1].user_id, 0 - sps[1].amount), Tail(sps))

(* mutant of NetSettlements: the recipient is not debited *)
RECURSIVE NetSettlementsPayerOnly(_, _)
NetSettlementsPayerOnly(d, setts) ==
    IF setts = <<>> THEN d
    ELSE NetSettlementsPayerOnly(DictAdd(d, setts[1].paid_by_user_id, setts[1].amount),
                                 Tail(setts))

(* Step 3: payer += amount, recipient -= amount *)
RECURSIVE NetSettlements(_, _)
NetSettlements(d, setts) ==
    IF setts = <<>> THEN d
    ELSE NetSettlements(
             DictAdd(DictAdd(d, setts[1].paid_by_user_id, setts[1].amount),
                     setts[1].paid_to_user_id, 0 - setts[1].amount),
             Tail(setts))

(* mutant of SeedMembers: no member is seeded *)
SeedNoMembers(d, mems) == d

(* Step 4: balances.setdefault(member_id, Decimal("0.00")) *)
RECURSIVE SeedMembers(_, _)
SeedMembers(d, mems) ==
    IF mems = <<>> THEN d
    ELSE SeedMembers(DictSetDefault(d, mems[1], 0), Tail(mems))

(* mutant of Unfiltered: the settlements are netted under a filter too *)
UnfilteredAlways(category) == TRUE

(* "if category is None": step 3 runs only without a category filter *)
Unfiltered(category) == category = None

(* compute_balances: steps 1 to 4 on a dict that starts empty *)
compute_balances(exps, setts, mems, category) ==
    LET b1 == CreditPayers(<<>>, get_active_expenses(exps, category))
        b2 == DebitSplits(b1, get_splits_for_active_expenses(exps, category))
        b3 == IF Unfiltered(category) THEN NetSettlements(b2, get_settlements(setts)) ELSE b2
    IN  SeedMembers(b3, get_member_ids(mems))

(* mutant of ViolatesZeroSum: INV-2 is asserted under a filter too *)
ViolatesZeroSumUnderFilter(category, balance_sum) == balance_sum # 0

(* the INV-2 assertion: only without a filter, and on the exact sum *)
ViolatesZeroSum(category, balance_sum) == category = None /\ balance_sum # 0

(* get_balance_response: membership check, balances, INV-2 assertion and the
   simplified debts (the group always exists in this model). *)
get_balance_response(exps, setts, mems, caller_id, category) ==
    LET bal == compute_balances(exps, setts, mems, category)
        balance_sum == SeqSum(Values(bal))
    IN  IF ~IsMember(get_member_ids(mems), caller_id)
        THEN [code |-> "FORBIDDEN", balances |-> <<>>, simplified_debts |-> <<>>]
        ELSE IF ViolatesZeroSum(category, balance_sum)
        THEN [code |-> "INTERNAL_ERROR", balances |-> <<>>, simplified_debts |-> <<>>]
        ELSE [code |-> "OK", balances |-> bal,
              simplified_debts |-> IF category = None THEN simplify_debts(bal) ELSE <<>>]

(* ------------------------------ expense schemas ------------------------- *)

(* mutant of SplitSum: only the first row is counted *)
SplitSumOfFirst(sps) == IF sps = <<>> THEN 0 ELSE sps[1].amount

SplitSum(sps) == SeqSum([k \in DOMAIN sps |-> sps[k].amount])

HasDuplicateUsers(sps) ==
    \E a, b \in DOMAIN sps : a # b /\ sps[a].user_id = sps[b].user_id

(* CreateExpenseSchema.validate_splits_coherence; "OK" when the payload loads *)

(* A request body: `keys` holds the keys present in the JSON object; a field
   whose key is absent is never read. *)
Has(data, key) == key \in data.keys

(* The PUT route has no schema: the amount is assigned as the JSON value it
   was sent as, a number or a string such as "2.00". *)
WithStringAmount(data) == [data EXCEPT !.keys = @ \cup {"amount_as_string"}]

AmountIsString(data) == Has(data, "amount_as_string")

validate_splits_coherence(data) ==
    IF data.split_mode = EQUAL
    THEN IF Has(data, "splits") THEN "SPLITS_SENT_FOR_EQUAL_MODE" ELSE "OK"
    ELSE IF ~Has(data, "splits") THEN "INVALID_FIELD"
         ELSE IF HasDuplicateUsers(data.splits) THEN "DUPLICATE_SPLIT_USER"
         ELSE "OK"

(* PatchExpenseSchema.validate_patch_coherence, rules A to D *)
validate_patch_coherence(data) ==
    IF data.split_mode = EQUAL
    THEN IF Has(data, "splits") THEN "SPLITS_SENT_FOR_EQUAL_MODE" ELSE "OK"
    ELSE IF data.split_mode = CUSTOM /\ ~Has(data, "splits") THEN "INVALID_FIELD"
    ELSE IF Has(data, "splits") /\ HasDuplicateUsers(data.splits) THEN "DUPLICATE_SPLIT_USER"
    ELSE IF Has(data, "amount") /\ ~Has(data, "splits") THEN "INVALID_FIELD"
    ELSE IF Has(data, "splits") /\ ~Has(data, "amount") THEN "INVALID_FIELD"
    ELSE "OK"

(* ------------------------------ expense service ------------------------- *)

(* _validate_split_users_are_members *)
SplitUsersAreMembers(sps, member_ids) ==
    \A k \in DOMAIN sps : IsMember(member_ids, sps[k].user_id)

(* _validate_split_sum: TRUE when the check passes *)
_validate_split_sum(sps, expected_amount) == SplitSum(sps) = expected_amount

(* _compute_equal_splits: base = amount / n rounded down to the cent, the
   remainder goes to the payer's split, or to the first split when the payer
   is not a participant. *)
(* mutant of _compute_equal_splits: the remainder is dropped *)
_compute_equal_splits_without_remainder(amount, participant_ids, payer_id) ==
    [k \in DOMAIN participant_ids |->
        [user_id |-> participant_ids[k], amount |-> amount \div Len(participant_ids)]]

(* mutant of _compute_equal_splits: the remainder goes to the first participant *)
_compute_equal_splits_first(amount, participant_ids, payer_id) ==
    LET n         == Len(participant_ids)
        base      == amount \div n
        remainder == amount - base * n
    IN  [k \in DOMAIN participant_ids |->
            [user_id |-> participant_ids[k],
             amount  |-> IF k = 1 THEN base + remainder ELSE base]]

_compute_equal_splits(amount, participant_ids, payer_id) ==
    LET n         == Len(participant_ids)
        base      == amount \div n
        remainder == amount - base * n
        payerPos  == {k \in DOMAIN participant_ids : participant_ids[k] = payer_id}
        target    == IF payerPos = {} THEN 1
                     ELSE CHOOSE k \in payerPos : \A m \in payerPos : k <= m
    IN  [k \in DOMAIN participant_ids |->
            [user_id |-> participant_ids[k],
             amount  |-> IF remainder > 0 /\ k = target THEN base + remainder ELSE base]]

(* ck_splits_amount_positive and uq_splits_expense_user on the rows of one
   expense, ck_expenses_amount_positive on the expense *)
RowConstraintsHold(e) ==
    /\ e.amount > 0
    /\ \A k \in DOMAIN e.splits : e.splits[k].amount > 0
    /\ ~HasDuplicateUsers(e.splits)

(* fn_check_split_sum, run at commit for an expense whose split rows were
   inserted or deleted in the transaction *)
fn_check_split_sum(e) == SplitSum(e.splits) = e.amount

Rejected(code, exps) == [code |-> code, expenses |-> exps]

(* create_expense followed by the route's commit.  An IntegrityError at
   flush or commit reaches the generic handler as INTERNAL_ERROR; every
   error leaves the tables as they were. *)
create_expense(exps, mems, caller_id, data) ==
    LET member_ids == get_member_ids(mems)
        splits_data == IF data.split_mode = EQUAL
                       THEN _compute_equal_splits(data.amount, member_ids, data.paid_by_user_id)
                       ELSE data.splits
        expense == [paid_by_user_id |-> data.paid_by_user_id,
                    amount          |-> data.amount,
                    split_mode      |-> data.split_mode,
                    category        |-> data.category,
                    deleted_at      |-> None,
                    splits          |-> splits_data]
    IN  IF validate_splits_coherence(data) # "OK"
        THEN Rejected(validate_splits_coherence(data), exps)
        ELSE IF ~IsMember(member_ids, caller_id) THEN Rejected("FORBIDDEN", exps)
        ELSE IF ~IsMember(member_ids, data.paid_by_user_id) THEN Rejected("PAYER_NOT_MEMBER", exps)
        ELSE IF data.split_mode # EQUAL /\ ~SplitUsersAreMembers(data.splits, member_ids)
        THEN Rejected("SPLIT_USER_NOT_MEMBER", exps)
        ELSE IF data.split_mode # EQUAL /\ ~_validate_split_sum(data.splits, data.amount)
        THEN Rejected("SPLIT_SUM_MISMATCH", exps)
        ELSE IF ~RowConstraintsHold(expense) \/ ~fn_check_split_sum(expense)
        THEN Rejected("INTERNAL_ERROR", exps)
        ELSE [code |-> "OK", expenses |-> Append(exps, expense)]

(* edit_expense followed by the route's commit *)
edit_expense(exps, mems, owner, expense_id, caller_id, data) ==
    IF validate_patch_coherence(data) # "OK"
    THEN Rejected(validate_patch_coherence(data), exps)
    ELSE IF expense_id \notin DOMAIN exps THEN Rejected("EXPENSE_NOT_FOUND", exps)
    ELSE
    LET expense    == exps[expense_id]
        member_ids == get_member_ids(mems)
        is_payer   == caller_id = expense.paid_by_user_id
        is_owner   == caller_id = owner
        e1 == IF Has(data, "category") THEN [expense EXCEPT !.category = data.category]
              ELSE expense
        e2 == IF Has(data, "paid_by_user_id")
              THEN [e1 EXCEPT !.paid_by_user_id = data.paid_by_user_id] ELSE e1
        new_split_mode == data.split_mode
        new_amount     == data.amount
        new_splits     == data.splits
        effective_split_mode == IF Has(data, "split_mode") THEN new_split_mode
                                ELSE expense.split_mode
        e3 == IF Has(data, "split_mode") THEN [e2 EXCEPT !.split_mode = new_split_mode] ELSE e2
        equal_branch  == effective_split_mode = EQUAL
                         /\ (Has(data, "amount") \/ new_split_mode = EQUAL)
        custom_branch == ~equal_branch /\ Has(data, "amount") /\ Has(data, "splits")
        effective_amount == IF Has(data, "amount") THEN new_amount ELSE expense.amount
        e4 == IF equal_branch
              THEN [e3 EXCEPT !.amount = effective_amount,
                              !.splits = _compute_equal_splits(effective_amount, member_ids,
                                                               e3.paid_by_user_id)]
              ELSE IF custom_branch
              THEN [e3 EXCEPT !.amount = new_amount, !.splits = new_splits]
              ELSE e3
    IN  IF ~IsMember(member_ids, caller_id) THEN Rejected("FORBIDDEN", exps)
        ELSE IF IsDeleted(expense) THEN Rejected("EXPENSE_DELETED", exps)
        ELSE IF ~(is_payer \/ is_owner) THEN Rejected("FORBIDDEN", exps)
        ELSE IF Has(data, "paid_by_user_id") /\ ~IsMember(member_ids, data.paid_by_user_id)
        THEN Rejected("PAYER_NOT_MEMBER", exps)
        ELSE IF custom_branch /\ ~IsMember(member_ids, e3.paid_by_user_id)
        THEN Rejected("PAYER_NOT_MEMBER", exps)
        ELSE IF custom_branch /\ ~SplitUsersAreMembers(new_splits, member_ids)
        THEN Rejected("SPLIT_USER_NOT_MEMBER", exps)
        ELSE IF custom_branch /\ ~_validate_split_sum(new_splits, new_amount)
        THEN Rejected("SPLIT_SUM_MISMATCH", exps)
        ELSE IF ~RowConstraintsHold(e4)
                \/ ((equal_branch \/ custom_branch) /\ ~fn_check_split_sum(e4))
        THEN Rejected("INTERNAL_ERROR", exps)
        ELSE [code |-> "OK", expenses |-> [exps EXCEPT ![expense_id] = e4]]

(* mutant of SoftDeleted: the split rows go with the deletion *)
SoftDeletedWithoutSplits(e, now) == [e EXCEPT !.deleted_at = now, !.splits = <<>>]

(* expense.deleted_at = datetime.now(timezone.utc): the row and its split
   rows stay stored *)
SoftDeleted(e, now) == [e EXCEPT !.deleted_at = now]

(* delete_expense followed by the route's commit; now is the value of
   datetime.now(timezone.utc) *)
delete_expense(exps, mems, owner, expense_id, caller_id, now) ==
    IF expense_id \notin DOMAIN exps THEN Rejected("EXPENSE_NOT_FOUND", exps)
    ELSE
    LET expense  == exps[expense_id]
        is_payer == caller_id = expense.paid_by_user_id
        is_owner == caller_id = owner
    IN  IF ~IsMember(get_member_ids(mems), caller_id) THEN Rejected("FORBIDDEN", exps)
        ELSE IF ~(is_payer \/ is_owner) THEN Rejected("FORBIDDEN", exps)
        ELSE IF ~IsDeleted(expense)
        THEN [code |-> "OK", expenses |-> [exps EXCEPT ![expense_id] = SoftDeleted(@, now)]]
        ELSE [code |-> "OK", expenses |-> exps]

(* PUT /groups/:gid/expenses/:id (routes/expenses.py update_expense): no
   schema, no membership, deletion, member or split-sum check.  The deferred
   trigger runs at commit only when split rows were deleted or inserted.
   first_or_404 and a failed commit both end in the generic 500 handler. *)
update_expense(exps, expense_id, user_id, data) ==
    IF expense_id \notin DOMAIN exps THEN Rejected("INTERNAL_ERROR", exps)
    ELSE
    LET expense == exps[expense_id]
        e1 == [expense EXCEPT
                 !.amount          = IF Has(data, "amount") THEN data.amount ELSE @,
                 !.category        = IF Has(data, "category") THEN data.category ELSE @,
                 !.paid_by_user_id = IF Has(data, "paid_by_user_id")
                                     THEN data.paid_by_user_id ELSE @,
                 !.split_mode      = IF Has(data, "split_mode") THEN data.split_mode ELSE @]
        e2 == IF Has(data, "splits") THEN [e1 EXCEPT !.splits = data.splits] ELSE e1
        rows_touched == Has(data, "splits") /\ (expense.splits # <<>> \/ data.splits # <<>>)
    IN  IF expense.paid_by_user_id # user_id THEN Rejected("FORBIDDEN", exps)
        ELSE IF ~RowConstraintsHold(e2) \/ (rows_touched /\ ~fn_check_split_sum(e2))
        THEN Rejected("INTERNAL_ERROR", exps)
        ELSE [code |-> "OK", expenses |-> [exps EXCEPT ![expense_id] = e2]]

(* ----------------------------- settlement service ----------------------- *)

(* create_settlement followed by the route's commit *)
create_settlement(setts, mems, paid_by_id, data) ==
    IF ~IsMember(mems, paid_by_id)
    THEN [code |-> "FORBIDDEN", settlements |-> setts]
    ELSE IF paid_by_id = data.paid_to_user_id
    THEN [code |-> "SELF_SETTLEMENT", settlements |-> setts]
    ELSE IF ~IsMember(mems, data.paid_to_user_id)
    THEN [code |-> "RECIPIENT_NOT_MEMBER", settlements |-> setts]
    ELSE [code |-> "OK",
          settlements |-> Append(setts, [paid_by_user_id |-> paid_by_id,
                                         paid_to_user_id |-> data.paid_to_user_id,
                                         amount          |-> data.amount])]

(* SUM(Split.amount) over the splits of user_id on the active expenses paid
   by payer_id *)
SplitsOwedTo(exps, user_id, payer_id) ==
    SplitSum(SelectSeq(
        ConcatSplits(SelectSeq(exps, LAMBDA e : ~IsDeleted(e) /\ e.paid_by_user_id = payer_id)),
        LAMBDA sp : sp.user_id = user_id))

(* SUM(Settlement.amount) over the settlements from paid_by to paid_to *)
SettlementsPaid(setts, paid_by, paid_to) ==
    SeqSum([k \in DOMAIN setts |->
               IF setts[k].paid_by_user_id = paid_by /\ setts[k].paid_to_user_id = paid_to
               THEN setts[k].amount ELSE 0])

(* -------------------------------- group service ------------------------- *)

(* add_member followed by the route's commit; every user id of the model is
   a registered user *)
add_member(mems, owner, caller_id, target_user_id) ==
    IF caller_id # owner THEN [code |-> "FORBIDDEN", members |-> mems]
    ELSE IF IsMember(mems, target_user_id) THEN [code |-> "ALREADY_MEMBER", members |-> mems]
    ELSE [code |-> "OK", members |-> Append(mems, target_user_id)]

(* remove_member followed by the route's commit *)
remove_member(mems, owner, caller_id, target_user_id) ==
    IF ~IsMember(mems, caller_id) THEN [code |-> "FORBIDDEN", members |-> mems]
    ELSE IF ~(caller_id = owner \/ caller_id = target_user_id)
    THEN [code |-> "FORBIDDEN", members |-> mems]
    ELSE IF ~IsMember(mems, target_user_id) THEN [code |-> "USER_NOT_FOUND", members |-> mems]
    ELSE [code |-> "OK", members |-> SelectSeq(mems, LAMBDA m : m # target_user_id)]

(* ==================== requests, statement by statement ================== *)
(* A request runs in a session of its own.  No isolation level is configured
   (db = SQLAlchemy(), extensions.py), so the transaction is READ COMMITTED:
   each SELECT reads what is committed when it runs, and what the session
   flushes is seen by other sessions only after the route's commit.  A request
   is the sequence of its statements: every SELECT is one statement, and the
   writes that follow the last SELECT are applied by the commit.  `s` is the
   session: the request, the number `at` of its next statement and what it
   has read so far; `db` holds the committed tables.                        *)

Idle == [op |-> "none"]

(* the request goes on with its next statement *)
Goes(s, db) == [session |-> s, code |-> "running", body |-> <<>>, db |-> db]

(* the request is answered; `db` is what the commit leaves *)
Ends(code, body, db) == [session |-> Idle, code |-> code, body |-> body, db |-> db]

(* An AppError is raised: the commit of the route is not reached and what the
   session holds is rolled back when the request is torn down. *)
Raises(code, s, db) == Ends(code, <<>>, db)

(* the mapped columns of an expense row; the relationship `splits` is loaded
   on first access *)
Columns(e) == [e EXCEPT !.splits = <<>>]

(* The UPDATE of a flush: the columns whose attribute differs from the loaded
   value are written to the row as it is now; the others keep what is there. *)
Flush(current, loaded, assigned) ==
    [current EXCEPT
       !.amount          = IF assigned.amount # loaded.amount THEN assigned.amount ELSE @,
       !.category        = IF assigned.category # loaded.category THEN assigned.category ELSE @,
       !.paid_by_user_id = IF assigned.paid_by_user_id # loaded.paid_by_user_id
                           THEN assigned.paid_by_user_id ELSE @,
       !.split_mode      = IF assigned.split_mode # loaded.split_mode
                           THEN assigned.split_mode ELSE @]

(* POST /groups/<id>/expenses: the schema, then create_expense
   1 _require_member   2 _get_member_ids   3 INSERT expense and splits, commit *)
create_expense_statement(s, db) ==
    LET data == s.data
        member_ids == get_member_ids(db.members)
        splits_data == IF data.split_mode = EQUAL
                       THEN _compute_equal_splits(data.amount, member_ids, data.paid_by_user_id)
                       ELSE data.splits
        expense == [paid_by_user_id |-> data.paid_by_user_id,
                    amount          |-> data.amount,
                    split_mode      |-> data.split_mode,
                    category        |-> data.category,
                    deleted_at      |-> None,
                    splits          |-> splits_data]
    IN  CASE s.at = 1 ->
               IF validate_splits_coherence(data) # "OK"
               THEN Ends(validate_splits_coherence(data), <<>>, db)
               ELSE IF ~IsMember(db.members, s.caller) THEN Ends("FORBIDDEN", <<>>, db)
               ELSE Goes([s EXCEPT !.at = 2], db)
          [] s.at = 2 ->
               IF ~IsMember(member_ids, data.paid_by_user_id)
               THEN Ends("PAYER_NOT_MEMBER", <<>>, db)
               ELSE IF data.split_mode # EQUAL /\ ~SplitUsersAreMembers(data.splits, member_ids)
               THEN Ends("SPLIT_USER_NOT_MEMBER", <<>>, db)
               ELSE IF data.split_mode # EQUAL /\ ~_validate_split_sum(data.splits, data.amount)
               THEN Ends("SPLIT_SUM_MISMATCH", <<>>, db)
               ELSE Goes([at |-> 3, row |-> expense] @@ s, db)
          [] s.at = 3 ->
               IF ~RowConstraintsHold(s.row) \/ ~fn_check_split_sum(s.row)
               THEN Ends("INTERNAL_ERROR", <<>>, db)
               ELSE Ends("OK", <<>>, [db EXCEPT !.expenses = Append(@, s.row)])

(* What edit_expense has assigned when it reaches the _get_member_ids of its
   branch: the category and the payer (s.row), the split mode and, in the
   equal branch, the amount. *)
AssignedBeforeBranch(s) ==
    LET data == s.data
        effective_split_mode == IF Has(data, "split_mode") THEN data.split_mode
                                ELSE s.loaded.split_mode
        equal_branch == effective_split_mode = EQUAL
                        /\ (Has(data, "amount") \/ data.split_mode = EQUAL)
    IN  [s.row EXCEPT
           !.split_mode = IF Has(data, "split_mode") THEN data.split_mode ELSE @,
           !.amount     = IF ~equal_branch THEN @
                          ELSE IF Has(data, "amount") THEN data.amount
                          ELSE s.loaded.amount]

(* PATCH /expenses/<id>: the schema, then edit_expense
   1 _get_expense_or_404   2 _require_member   3 _get_member_ids for the new
   payer   4 _get_member_ids of the branch   5 the load of expense.splits in
   _delete_splits   6 the DELETEs and INSERTs, the UPDATE and the commit.
   Every SELECT is preceded by an autoflush: once an assigned column differs
   from the loaded one the UPDATE is sent and the session holds the lock of
   the expense row until it ends (`locked`).  Under the lock the split rows
   cannot change between their load and the commit; without it they are
   loaded by statement 5, and `overtaken` tells that another request has
   replaced them since: the DELETEs by primary key then match no row. *)
edit_expense_statement(s, db) ==
    LET data == s.data
        member_ids == get_member_ids(db.members)
        effective_split_mode == IF Has(data, "split_mode") THEN data.split_mode
                                ELSE s.loaded.split_mode
        equal_branch  == effective_split_mode = EQUAL
                         /\ (Has(data, "amount") \/ data.split_mode = EQUAL)
        custom_branch == ~equal_branch /\ Has(data, "amount") /\ Has(data, "splits")
        branch == equal_branch \/ custom_branch
        effective_amount == IF Has(data, "amount") THEN data.amount ELSE s.loaded.amount
        after_payer == IF branch THEN 4 ELSE 6
        e3 == AssignedBeforeBranch(s)
        e4 == [e3 EXCEPT !.amount = IF custom_branch THEN data.amount ELSE @]
        splits_data == IF equal_branch
                       THEN _compute_equal_splits(effective_amount, member_ids,
                                                  e3.paid_by_user_id)
                       ELSE data.splits
        under_lock == s.locked \/ e4 # s.loaded
        current == db.expenses[s.id]
        rows == IF ~branch THEN current.splits
                ELSE IF s.locked \/ ~s.overtaken THEN s.splits
                ELSE current.splits \o s.splits
        written == [Flush(current, s.loaded, s.row) EXCEPT !.splits = rows]
    IN  CASE s.at = 1 ->
               IF validate_patch_coherence(data) # "OK"
               THEN Raises(validate_patch_coherence(data), s, db)
               ELSE IF s.id \notin DOMAIN db.expenses THEN Raises("EXPENSE_NOT_FOUND", s, db)
               ELSE Goes([at |-> 2, loaded |-> Columns(db.expenses[s.id])] @@ s, db)
          [] s.at = 2 ->
               IF ~IsMember(db.members, s.caller) THEN Raises("FORBIDDEN", s, db)
               ELSE IF IsDeleted(s.loaded) THEN Raises("EXPENSE_DELETED", s, db)
               ELSE IF ~(s.caller = s.loaded.paid_by_user_id \/ s.caller = db.owner_user_id)
               THEN Raises("FORBIDDEN", s, db)
               ELSE Goes([at        |-> IF Has(data, "paid_by_user_id") THEN 3 ELSE after_payer,
                          row       |-> IF Has(data, "category")
                                        THEN [s.loaded EXCEPT !.category = data.category]
                                        ELSE s.loaded,
                          locked    |-> FALSE,
                          overtaken |-> FALSE,
                          splits    |-> <<>>] @@ s, db)
          [] s.at = 3 ->
               IF ~IsMember(member_ids, data.paid_by_user_id)
               THEN Raises("PAYER_NOT_MEMBER", s, db)
               ELSE Goes([s EXCEPT !.at = after_payer,
                                   !.locked = s.row # s.loaded,
                                   !.row = [@ EXCEPT !.paid_by_user_id = data.paid_by_user_id]],
                         db)
          [] s.at = 4 ->
               IF equal_branch /\ member_ids = <<>> THEN Ends("INTERNAL_ERROR", <<>>, db)
               ELSE IF custom_branch /\ ~IsMember(member_ids, e3.paid_by_user_id)
               THEN Raises("PAYER_NOT_MEMBER", s, db)
               ELSE IF custom_branch /\ ~SplitUsersAreMembers(data.splits, member_ids)
               THEN Raises("SPLIT_USER_NOT_MEMBER", s, db)
               ELSE IF custom_branch /\ ~_validate_split_sum(data.splits, data.amount)
               THEN Raises("SPLIT_SUM_MISMATCH", s, db)
               ELSE Goes([s EXCEPT !.at = IF under_lock THEN 6 ELSE 5,
                                   !.locked = under_lock,
                                   !.row = e4,
                                   !.splits = splits_data], db)
          [] s.at = 5 -> Goes([s EXCEPT !.at = 6], db)
          [] s.at = 6 ->
               IF ~RowConstraintsHold(written) \/ (branch /\ ~fn_check_split_sum(written))
               THEN Ends("INTERNAL_ERROR", <<>>, db)
               ELSE Ends("OK", <<>>, [db EXCEPT !.expenses[s.id] = written])

(* DELETE /expenses/<id>
   1 _get_expense_or_404   2 _require_member   3 UPDATE deleted_at, commit.
   is_deleted is tested on the loaded row; an expense that was already
   deleted is left as it is. *)
delete_expense_statement(s, db) ==
    CASE s.at = 1 ->
           IF s.id \notin DOMAIN db.expenses THEN Ends("EXPENSE_NOT_FOUND", <<>>, db)
           ELSE Goes([at |-> 2, loaded |-> Columns(db.expenses[s.id])] @@ s, db)
      [] s.at = 2 ->
           IF ~IsMember(db.members, s.caller) THEN Ends("FORBIDDEN", <<>>, db)
           ELSE IF ~(s.caller = s.loaded.paid_by_user_id \/ s.caller = db.owner_user_id)
           THEN Ends("FORBIDDEN", <<>>, db)
           ELSE IF IsDeleted(s.loaded) THEN Ends("OK", <<>>, db)
           ELSE Goes([s EXCEPT !.at = 3], db)
      [] s.at = 3 ->
           Ends("OK", <<>>, [db EXCEPT !.expenses[s.id] = SoftDeleted(@, s.now)])

(* PUT /groups/<gid>/expenses/<id> (routes/expenses.py update_expense)
   1 the SELECT of first_or_404   2 the UPDATE of the expense row (updated_at
   is assigned on every request): with splits in the body it is sent by the
   autoflush of the bulk DELETE and the session holds the lock of the row
   from then on, without it is sent by the commit   3 the bulk DELETE of the
   split rows there are, the INSERTs and the commit.  The deferred trigger
   runs at commit only when split rows were deleted or inserted.  An amount sent as a
   number that equals the loaded Decimal leaves the column as it is; a
   string never equals the Decimal, so the column is written. *)
update_expense_statement(s, db) ==
    LET data == s.data
        current == db.expenses[s.id]
        assigned == [s.loaded EXCEPT
                 !.amount          = IF Has(data, "amount") THEN data.amount ELSE @,
                 !.category        = IF Has(data, "category") THEN data.category ELSE @,
                 !.paid_by_user_id = IF Has(data, "paid_by_user_id")
                                     THEN data.paid_by_user_id ELSE @,
                 !.split_mode      = IF Has(data, "split_mode") THEN data.split_mode ELSE @]
        written == [Flush(current, s.loaded, assigned) EXCEPT
                      !.amount = IF Has(data, "amount") /\ AmountIsString(data)
                                 THEN data.amount ELSE @,
                      !.splits = IF Has(data, "splits") THEN data.splits ELSE @]
        rows_touched == Has(data, "splits") /\ (current.splits # <<>> \/ data.splits # <<>>)
    IN  CASE s.at = 1 ->
               IF s.id \notin DOMAIN db.expenses THEN Ends("INTERNAL_ERROR", <<>>, db)
               ELSE IF db.expenses[s.id].paid_by_user_id # s.caller
               THEN Ends("FORBIDDEN", <<>>, db)
               ELSE Goes([at |-> 2, loaded |-> Columns(db.expenses[s.id])] @@ s, db)
          [] s.at = 2 /\ Has(data, "splits") ->
               IF written.amount <= 0 THEN Ends("INTERNAL_ERROR", <<>>, db)
               ELSE Goes([s EXCEPT !.at = 3], db)
          [] OTHER ->
               IF ~RowConstraintsHold(written) \/ (rows_touched /\ ~fn_check_split_sum(written))
               THEN Ends("INTERNAL_ERROR", <<>>, db)
               ELSE Ends("OK", <<>>, [db EXCEPT !.expenses[s.id] = written])

(* POST /groups/<id>/settlements: create_settlement
   1 _require_member   2 the SELECT of the recipient's membership
   3 to 6 the four SUMs of _compute_bilateral_debt   7 INSERT, commit.
   `debt` is the net debt as far as it is summed. *)
create_settlement_statement(s, db) ==
    LET debtor   == s.caller
        creditor == s.data.paid_to_user_id
        warnings == IF s.data.amount > (IF s.debt <= 0 THEN 0 ELSE s.debt)
                    THEN <<"OVERPAYMENT">> ELSE <<>>
    IN  CASE s.at = 1 ->
               IF ~IsMember(db.members, s.caller) THEN Ends("FORBIDDEN", <<>>, db)
               ELSE IF s.caller = creditor THEN Ends("SELF_SETTLEMENT", <<>>, db)
               ELSE Goes([s EXCEPT !.at = 2], db)
          [] s.at = 2 ->
               IF ~IsMember(db.members, creditor) THEN Ends("RECIPIENT_NOT_MEMBER", <<>>, db)
               ELSE Goes([at |-> 3, debt |-> 0] @@ s, db)
          [] s.at = 3 ->
               Goes([s EXCEPT !.at = 4,
                              !.debt = @ + SplitsOwedTo(db.expenses, debtor, creditor)], db)
          [] s.at = 4 ->
               Goes([s EXCEPT !.at = 5,
                              !.debt = @ - SplitsOwedTo(db.expenses, creditor, debtor)], db)
          [] s.at = 5 ->
               Goes([s EXCEPT !.at = 6,
                              !.debt = @ - SettlementsPaid(db.settlements, debtor, creditor)], db)
          [] s.at = 6 ->
               Goes([s EXCEPT !.at = 7,
                              !.debt = @ + SettlementsPaid(db.settlements, creditor, debtor)], db)
          [] s.at = 7 ->
               Ends("OK", warnings,
                    [db EXCEPT !.settlements =
                        Append(@, [paid_by_user_id |-> s.caller,
                                   paid_to_user_id |-> creditor,
                                   amount          |-> s.data.amount])])

(* POST /groups/<id>/members: add_member
   1 the SELECT of the target's membership   2 INSERT, commit.  The INSERT of
   a membership that was committed in between violates
   uq_memberships_user_group: IntegrityError, INTERNAL_ERROR. *)
add_member_statement(s, db) ==
    CASE s.at = 1 ->
           IF s.caller # db.owner_user_id THEN Ends("FORBIDDEN", <<>>, db)
           ELSE IF IsMember(db.members, s.target) THEN Ends("ALREADY_MEMBER", <<>>, db)
           ELSE Goes([s EXCEPT !.at = 2], db)
      [] s.at = 2 ->
           IF IsMember(db.members, s.target) THEN Ends("INTERNAL_ERROR", <<>>, db)
           ELSE Ends("OK", <<>>, [db EXCEPT !.members = Append(@, s.target)])

(* DELETE /groups/<id>/members/<uid>: remove_member
   1 _require_member   2 the SELECT of the target's membership   3 DELETE of
   the loaded row by its primary key, commit.  `overtaken` tells that another
   request has deleted the row since: the DELETE then matches no row, which
   the ORM reports as a warning only. *)
remove_member_statement(s, db) ==
    CASE s.at = 1 ->
           IF ~IsMember(db.members, s.caller) THEN Ends("FORBIDDEN", <<>>, db)
           ELSE IF ~(s.caller = db.owner_user_id \/ s.caller = s.target)
           THEN Ends("FORBIDDEN", <<>>, db)
           ELSE Goes([s EXCEPT !.at = 2], db)
      [] s.at = 2 ->
           IF ~IsMember(db.members, s.target) THEN Ends("USER_NOT_FOUND", <<>>, db)
           ELSE Goes([at |-> 3, overtaken |-> FALSE] @@ s, db)
      [] s.at = 3 ->
           IF s.overtaken THEN Ends("OK", <<>>, db)
           ELSE Ends("OK", <<>>,
                     [db EXCEPT !.members = SelectSeq(@, LAMBDA m : m # s.target)])

(* compute_balances: one statement for each of its queries
   1 get_active_expenses   2 get_splits_for_active_expenses
   3 get_settlements, only without a filter   4 get_member_ids.
   `balances` is the dict as far as it is built. *)
compute_balances_statement(s, db) ==
    CASE s.at = 1 ->
           Goes([at |-> 2,
                 balances |-> CreditPayers(<<>>, get_active_expenses(db.expenses, s.category))]
                @@ s, db)
      [] s.at = 2 ->
           Goes([s EXCEPT !.at = IF Unfiltered(s.category) THEN 3 ELSE 4,
                          !.balances = DebitSplits(@, get_splits_for_active_expenses(
                                                          db.expenses, s.category))],
                db)
      [] s.at = 3 ->
           Goes([s EXCEPT !.at = 4,
                          !.balances = NetSettlements(@, get_settlements(db.settlements))],
                db)
      [] s.at = 4 ->
           Ends("OK", SeedMembers(s.balances, get_member_ids(db.members)), db)

(* GET /groups/<id>/balances: get_balance_response
   1 get_member_ids for the caller   2 to 5 the statements of
   compute_balances; then the INV-2 assertion and simplify_debts. *)
get_balance_response_statement(s, db) ==
    LET o   == compute_balances_statement([s EXCEPT !.at = @ - 1], db)
        bal == o.body
    IN  IF s.at = 1
        THEN IF ~IsMember(get_member_ids(db.members), s.caller)
             THEN Ends("FORBIDDEN", [balances |-> <<>>, simplified_debts |-> <<>>], db)
             ELSE Goes([s EXCEPT !.at = 2], db)
        ELSE IF o.code = "running"
        THEN Goes([o.session EXCEPT !.at = @ + 1], db)
        ELSE IF ViolatesZeroSum(s.category, SeqSum(Values(bal)))
        THEN Ends("INTERNAL_ERROR", [balances |-> <<>>, simplified_debts |-> <<>>], db)
        ELSE Ends("OK", [balances |-> bal,
                         simplified_debts |-> IF s.category = None
                                              THEN simplify_debts(bal) ELSE <<>>], db)

(* the next statement of the request of session s *)
Statement(s, db) ==
    CASE s.op = "create_expense"       -> create_expense_statement(s, db)
      [] s.op = "edit_expense"         -> edit_expense_statement(s, db)
      [] s.op = "delete_expense"       -> delete_expense_statement(s, db)
      [] s.op = "update_expense"       -> update_expense_statement(s, db)
      [] s.op = "create_settlement"    -> create_settlement_statement(s, db)
      [] s.op = "add_member"           -> add_member_statement(s, db)
      [] s.op = "remove_member"        -> remove_member_statement(s, db)
      [] s.op = "compute_balances"     -> compute_balances_statement(s, db)
      [] s.op = "get_balance_response" -> get_balance_response_statement(s, db)

(* The session holds the lock of the row of expense `id`: the UPDATE of the
   row that another request sends waits until the session ends. *)
HoldsRowLock(s, id) ==
    \/ s.op = "edit_expense" /\ s.at > 2 /\ s.id = id /\ s.locked
    \/ s.op = "update_expense" /\ s.at = 3 /\ s.id = id

(* The next statement of the session starts with an UPDATE of the row of its
   expense.  DELETE: the UPDATE of deleted_at.  PUT: updated_at is assigned
   on every request.  PATCH: the autoflush before _get_member_ids once an
   assigned column differs from the loaded one, the autoflush before the load
   of expense.splits (at 6 with `locked`), or the flush of updated_at that
   follows the DELETEs and INSERTs of the split rows (at 6 without). *)
SendsUpdate(s) ==
    \/ s.op = "delete_expense" /\ s.at = 3
    \/ s.op = "update_expense" /\ s.at = 2
    \/ /\ s.op = "edit_expense"
       /\ \/ s.at = 3 /\ s.row # s.loaded
          \/ s.at = 4 /\ AssignedBeforeBranch(s) # s.loaded
          \/ s.at = 6

(* A request that writes expense s.id is sent while another session holds the
   lock of the row: it runs its statements on the committed tables up to
   its first UPDATE of the row, and waits there.  A PATCH that reaches its
   last flush has by then deleted the split rows it loaded and inserted its
   own; rows the table rejects end it before the UPDATE. *)
RECURSIVE WaitsAt(_, _)
WaitsAt(s, db) ==
    IF SendsUpdate(s)
    THEN IF /\ s.op = "edit_expense" /\ s.at = 6 /\ ~s.locked
            /\ ~RowConstraintsHold([db.expenses[s.id] EXCEPT !.splits = s.splits])
         THEN Ends("INTERNAL_ERROR", <<>>, db)
         ELSE Goes(s, db)
    ELSE LET o == Statement(s, db)
         IN  IF o.code = "running" THEN WaitsAt(o.session, db) ELSE o

(* the session without the request that waits for it *)
WithoutWaiter(s) == [s EXCEPT !.waiter = Idle]

(* The waiting PATCH has deleted the split rows of the expense and inserted
   its own, and waits for the lock of the expense row that session s (a
   PATCH or a PUT) holds; s is about to DELETE the same split rows, or to
   INSERT a row for a user the waiting request has inserted one for
   (uq_splits_expense_user): each waits for the other. *)
Deadlocked(s, db) ==
    LET rows == IF s.op = "update_expense" THEN s.data.splits ELSE s.splits
    IN  /\ s.waiter # Idle
        /\ \/ s.op = "edit_expense" /\ s.at = 6 /\ s.splits # <<>>
           \/ s.op = "update_expense" /\ s.at = 3
        /\ s.waiter.op = "edit_expense" /\ s.waiter.at = 6
        /\ ~s.waiter.locked /\ s.waiter.splits # <<>>
        /\ \/ db.expenses[s.id].splits # <<>>
           \/ \E i \in DOMAIN rows, j \in DOMAIN s.waiter.splits :
                 rows[i].user_id = s.waiter.splits[j].user_id

(* The waiting request once the lock is released: the tables were `before`
   when it started to wait and are `after` now.  Its UPDATE applies to the
   row as it is committed now. *)
HandOff(w, before, after) ==
    IF /\ w.op = "edit_expense" /\ w.at = 6 /\ ~w.locked /\ w.splits # <<>>
       /\ after.expenses[w.id].splits # before.expenses[w.id].splits
    THEN [w EXCEPT !.overtaken = TRUE] ELSE w

(* The outcome o of a statement of session s: when s is answered the request
   that waits for it goes on. *)
Answer(s, o, db) ==
    IF o.code # "running" /\ s.waiter # Idle
    THEN [o EXCEPT !.session = HandOff(s.waiter, db, o.db)] ELSE o

(* The outcomes of the next statement of session s.  PostgreSQL ends a
   deadlock by aborting one of the two transactions, whichever detects it:
   either s is answered INTERNAL_ERROR (the generic handler) and the waiting
   request goes on, or the waiting request is and s goes on. *)
Outcomes(s, db) ==
    IF Deadlocked(s, db)
    THEN {Answer(s, Ends("INTERNAL_ERROR", <<>>, db), db),
          Statement(WithoutWaiter(s), db)}
    ELSE {Answer(s, Statement(s, db), db)}

(* -------------------------------- auth service -------------------------- *)

(* _hash_token: the SHA-256 digest of the raw token, taken as collision free *)
_hash_token(raw_token) == <<"sha256", raw_token>>

(* bcrypt reads the first 72 bytes of a password *)
BcryptMaxBytes == 72

(* No release of bcrypt is pinned.  Up to 4.x a longer password is cut to its
   first 72 bytes; from 5.0 on hashpw and checkpw raise ValueError on it. *)
BcryptReleases == {"truncating", "rejecting"}

(* the release raises on the password *)
TooLong(password, bcrypt) == bcrypt = "rejecting" /\ Len(password) > BcryptMaxBytes

(* bcrypt.hashpw and bcrypt.checkpw on a password the release accepts; a
   password is the sequence of its bytes *)
hashpw(password) == <<"bcrypt", SubSeq(password, 1, Min(Len(password), BcryptMaxBytes))>>

checkpw(password, password_hash) == password_hash = hashpw(password)

(* the row of refresh_tokens with the hash, as a set of positions *)
TokenRecords(tokens, token_hash) == {k \in DOMAIN tokens : tokens[k].token_hash = token_hash}

AuthRejected(code, accs, tokens) == [code |-> code, accounts |-> accs, refresh_tokens |-> tokens]

(* _build_token_pair followed by the route's commit: raw_token is the value
   of secrets.token_hex(32), now the clock; token_hash is unique, so a hash
   that is already stored ends in an IntegrityError and a rollback. *)
_create_refresh_token(accs_before, tokens, accs, user_id, raw_token, now) ==
    IF TokenRecords(tokens, _hash_token(raw_token)) # {}
    THEN AuthRejected("INTERNAL_ERROR", accs_before, tokens)
    ELSE [code |-> "OK", accounts |-> accs,
          refresh_tokens |-> Append(tokens, [user_id    |-> user_id,
                                             token_hash |-> _hash_token(raw_token),
                                             expires_at |-> now + RefreshLifetime,
                                             revoked    |-> FALSE])]

register_user(accs, tokens, username, email, password, raw_token, now, bcrypt) ==
    IF \E k \in DOMAIN accs : accs[k].email = email
    THEN AuthRejected("DUPLICATE_EMAIL", accs, tokens)
    ELSE IF \E k \in DOMAIN accs : accs[k].username = username
    THEN AuthRejected("DUPLICATE_USERNAME", accs, tokens)
    ELSE IF TooLong(password, bcrypt) THEN AuthRejected("INTERNAL_ERROR", accs, tokens)
    ELSE _create_refresh_token(
             accs, tokens,
             Append(accs, [username |-> username, email |-> email,
                           password_hash |-> hashpw(password)]),
             Len(accs) + 1, raw_token, now)

login_user(accs, tokens, username, password, raw_token, now, bcrypt) ==
    LET found == {k \in DOMAIN accs : accs[k].username = username}
    IN  IF found = {} THEN AuthRejected("INVALID_CREDENTIALS", accs, tokens)
        ELSE IF TooLong(password, bcrypt) THEN AuthRejected("INTERNAL_ERROR", accs, tokens)
        ELSE IF \A k \in found : ~checkpw(password, accs[k].password_hash)
        THEN AuthRejected("INVALID_CREDENTIALS", accs, tokens)
        ELSE _create_refresh_token(accs, tokens, accs, CHOOSE k \in found : TRUE,
                                   raw_token, now)

(* mutant of refresh_access_token: the revoked flag is not read *)
refresh_access_token_of_revoked(tokens, raw_refresh_token, now) ==
    LET found == TokenRecords(tokens, _hash_token(raw_refresh_token))
    IN  IF found = {} \/ \A k \in found : tokens[k].expires_at <= now
        THEN [code |-> "REFRESH_TOKEN_INVALID"]
        ELSE [code |-> "OK"]

refresh_access_token(tokens, raw_refresh_token, now) ==
    LET found == TokenRecords(tokens, _hash_token(raw_refresh_token))
    IN  IF found = {} \/ \A k \in found : tokens[k].revoked \/ tokens[k].expires_at <= now
        THEN [code |-> "REFRESH_TOKEN_INVALID"]
        ELSE [code |-> "OK"]

logout_user(tokens, raw_refresh_token) ==
    LET found == TokenRecords(tokens, _hash_token(raw_refresh_token))
    IN  IF found = {} \/ \A k \in found : tokens[k].revoked
        THEN [code |-> "REFRESH_TOKEN_INVALID", refresh_tokens |-> tokens]
        ELSE [code |-> "OK",
              refresh_tokens |-> [k \in DOMAIN tokens |->
                                     IF k \in found THEN [tokens[k] EXCEPT !.revoked = TRUE]
                                     ELSE tokens[k]]]

(* ------------------------------- state --------------------------------- *)

VARIABLES
    pc,             \* which harness runs: "api", or the position of a function call
    balances,       \* the map handed to simplify_debts
    transactions,   \* the list simplify_debts returned
    owner_user_id,  \* groups.owner_user_id
    members,        \* memberships of the group, in insertion order
    expenses,       \* expenses of the group with their splits; the id is the index
    settlements,    \* settlements of the group
    resp,           \* the last response to GET /balances: the filter and the code
    accounts,       \* the rows of users; the id is the index
    refresh_tokens, \* the rows of refresh_tokens
    session         \* the request in flight: its statements run between other requests

vars == <<pc, balances, transactions, owner_user_id, members, expenses, settlements, resp,
          accounts, refresh_tokens, session>>

(* No account is registered and no refresh token is stored. *)
NoAccounts == accounts = <<>> /\ refresh_tokens = <<>>

NoResponse == [code |-> "none", body |-> <<>>, request |-> Idle]

(* ---------------- simplify_debts on bounded balance maps ---------------- *)

(* The maps handed to simplify_debts: n users with keys 1..n inserted in
   ascending or descending order, any balances in -MaxBalance..MaxBalance. *)
BalanceMap(n, vals, descending) ==
    IF descending
    THEN [k \in 1..n |-> <<n + 1 - k, vals[n + 1 - k]>>]
    ELSE [k \in 1..n |-> <<k, vals[k]>>]

InitSimplify ==
    /\ pc = "input"
    /\ \E n \in 0..MaxParties :
         \E vals \in [1..n -> (0 - MaxBalance)..MaxBalance] :
           \E descending \in BOOLEAN :
             balances = BalanceMap(n, vals, descending)
    /\ transactions = <<>>
    /\ owner_user_id = 0
    /\ members = <<>>
    /\ expenses = <<>>
    /\ settlements = <<>>
    /\ resp = NoResponse
    /\ NoAccounts
    /\ session = Idle

CallSimplifyDebts ==
    /\ pc = "input"
    /\ transactions' = simplify_debts(balances)
    /\ pc' = "simplified"
    /\ UNCHANGED <<balances, owner_user_id, members, expenses, settlements, resp>>
    /\ UNCHANGED <<accounts, refresh_tokens, session>>

NextSimplify == CallSimplifyDebts

SpecSimplify == InitSimplify /\ [][NextSimplify]_vars

(* ============================ the group's API =========================== *)

RECURSIVE AscSeq(_)
AscSeq(S) ==
    IF S = {} THEN <<>>
    ELSE LET m == CHOOSE x \in S : \A y \in S : x <= y
         IN  <<m>> \o AscSeq(S \ {m})

(* Split arrays of request bodies: distinct users in ascending order, with a
   total of at most the largest amount. *)
SplitArraysOver(users, amounts) ==
    LET arrays == UNION {
            {[k \in 1..Cardinality(S) |-> [user_id |-> AscSeq(S)[k], amount |-> f[AscSeq(S)[k]]]]
                : f \in [S -> amounts]} : S \in SUBSET users}
    IN  {sps \in arrays : \E total \in amounts \cup {0} : SplitSum(sps) = total}

(* An array that names a user twice. *)
DuplicateSplits == <<[user_id |-> 1, amount |-> 1], [user_id |-> 1, amount |-> 1]>>

(* The body that holds the given keys; the fields of absent keys are fillers. *)
Body(keys, paid_by_user_id, amount, split_mode, category, splits) ==
    [keys            |-> keys,
     paid_by_user_id |-> IF "paid_by_user_id" \in keys THEN paid_by_user_id ELSE 0,
     amount          |-> IF "amount" \in keys THEN amount ELSE 0,
     split_mode      |-> IF "split_mode" \in keys THEN split_mode ELSE None,
     category        |-> IF "category" \in keys THEN category ELSE None,
     splits          |-> IF "splits" \in keys THEN splits ELSE <<>>]

CreateKeys == {"paid_by_user_id", "amount", "split_mode", "category"}

(* POST bodies after load (split_mode and category carry their defaults):
   equal mode without splits, custom mode with a splits array, and one body
   for each rule of the schema that rejects. *)
CreateBodiesOver(users, amounts, categories) ==
    {Body(CreateKeys, payer, amount, EQUAL, category, <<>>)
        : payer \in users, amount \in amounts, category \in categories}
    \cup
    {Body(CreateKeys \cup {"splits"}, payer, amount, CUSTOM, category, sps)
        : payer \in users, amount \in amounts, category \in categories,
          sps \in SplitArraysOver(users, amounts)}
    \cup
    {Body(CreateKeys \cup {"splits"}, 1, 1, EQUAL, "other", <<>>),
     Body(CreateKeys, 1, 1, CUSTOM, "other", <<>>),
     Body(CreateKeys \cup {"splits"}, 1, 2, CUSTOM, "other", DuplicateSplits)}

(* PATCH bodies: a change of payer and/or category; a switch to equal mode
   with or without amount and payer; amount and splits together, with or
   without split_mode 'custom'; and one body for each rule of the schema
   that rejects. *)
PatchBodiesOver(users, amounts, categories) ==
    {Body(keys, payer, 0, None, category, <<>>)
        : keys \in SUBSET {"paid_by_user_id", "category"},
          payer \in users, category \in categories}
    \cup
    {Body({"split_mode"} \cup keys, payer, amount, EQUAL, None, <<>>)
        : keys \in SUBSET {"paid_by_user_id", "amount"},
          payer \in users, amount \in amounts}
    \cup
    {Body({"amount", "splits"} \cup keys, 0, amount, CUSTOM, None, sps)
        : keys \in SUBSET {"split_mode"}, amount \in amounts,
          sps \in SplitArraysOver(users, amounts)}
    \cup
    {Body({"split_mode", "splits"}, 0, 0, EQUAL, None, <<>>),
     Body({"split_mode"}, 0, 0, CUSTOM, None, <<>>),
     Body({"amount", "splits"}, 0, 2, None, None, DuplicateSplits),
     Body({"amount"}, 0, 1, None, None, <<>>),
     Body({"splits"}, 0, 0, None, None, <<>>)}

(* PUT bodies: any subset of amount and splits, or one of payer, mode and
   category. *)
PutBodiesOver(users, amounts, categories) ==
    {Body(keys, 0, amount, None, None, sps)
        : keys \in SUBSET {"amount", "splits"}, amount \in amounts,
          sps \in SplitArraysOver(users, amounts) \cup {DuplicateSplits}}
    \cup
    {WithStringAmount(Body({"amount"}, 0, amount, None, None, <<>>)) : amount \in amounts}
    \cup
    {Body({"paid_by_user_id"}, payer, 0, None, None, <<>>) : payer \in users}
    \cup
    {Body({"split_mode"}, 0, 0, split_mode, None, <<>>) : split_mode \in SplitModes}
    \cup
    {Body({"category"}, 0, 0, None, category, <<>>) : category \in categories}

(* The bodies of the expense service on all users and amounts. *)
CreateBodies == CreateBodiesOver(Users, Amounts, Categories)
PatchBodies == PatchBodiesOver(Users, Amounts, Categories)

(* The bodies of the whole API: the expenses it stores have the default
   category. *)
ApiUsers == 1..MaxApiUsers
ApiAmounts == 1..MaxApiAmount
ApiCategories == {"other"}
ApiCreateBodies == CreateBodiesOver(ApiUsers, ApiAmounts, ApiCategories)
ApiPatchBodies == PatchBodiesOver(ApiUsers, ApiAmounts, ApiCategories)
ApiPutBodies == PutBodiesOver(ApiUsers, ApiAmounts, ApiCategories)
SettlementBodies == [paid_to_user_id : ApiUsers, amount : ApiAmounts]
ApiSettlementBodies == [paid_to_user_id : ApiUsers, amount : {1}]

ExpenseIds == 1..MaxExpenses

(* After create_group by user 1: the creator is owner and first member. *)
Init ==
    /\ pc = "api"
    /\ balances = <<>>
    /\ transactions = <<>>
    /\ owner_user_id = 1
    /\ members = <<1>>
    /\ expenses = <<>>
    /\ settlements = <<>>
    /\ resp = NoResponse
    /\ NoAccounts
    /\ session = Idle

Frame == UNCHANGED <<pc, balances, transactions, owner_user_id>>

(* the committed tables *)
Tables == [owner_user_id |-> owner_user_id, members |-> members,
           expenses |-> expenses, settlements |-> settlements]

(* The rows a request of the API in flight is about to insert count towards
   the bounds of the tables. *)
ExpensesInFlight ==
    IF session.op = "create_expense" /\ session.reply = "api" THEN 1 ELSE 0

SettlementsInFlight ==
    IF session.op = "create_settlement" /\ session.reply = "api" THEN 1 ELSE 0

(* The session after another request has replaced the split rows of expense
   id: the rows it loaded for _delete_splits are gone. *)
SplitRowsReplaced(s, id) ==
    IF s.op = "edit_expense" /\ s.at = 6 /\ s.id = id /\ ~s.locked /\ s.splits # <<>>
    THEN [s EXCEPT !.overtaken = TRUE] ELSE s

(* The session after another request has deleted the membership of target:
   the row it loaded for session.delete is gone. *)
MembershipDeleted(s, target) ==
    IF s.op = "remove_member" /\ s.at = 3 /\ s.target = target
    THEN [s EXCEPT !.overtaken = TRUE] ELSE s

(* edit_expense replaces the split rows: the equal or the custom branch *)
ReplacesSplits(expense, data) ==
    \/ (IF Has(data, "split_mode") THEN data.split_mode ELSE expense.split_mode) = EQUAL
       /\ (Has(data, "amount") \/ data.split_mode = EQUAL)
    \/ Has(data, "amount") /\ Has(data, "splits")

(* Another request is served while one is in flight: at most
   MaxServedInFlight requests that change a table, or wait for a lock the
   request in flight holds, are. *)
MayServe == IF session = Idle THEN TRUE ELSE session.served < MaxServedInFlight

(* The session after a request was served that changed a table or not. *)
Served(s, changed) ==
    IF s = Idle \/ ~changed THEN s ELSE [s EXCEPT !.served = @ + 1]

(* A request r that writes the row of expense id is sent while the session
   holds the lock of the row: it runs up to its first UPDATE of the row.  One
   request waits at a time; it goes on when the session is answered, and
   nothing is served while it runs. *)
Waits(r, id) ==
    /\ HoldsRowLock(session, id)
    /\ session.waiter = Idle
    /\ LET w == WaitsAt([at |-> 1, served |-> MaxServedInFlight, from |-> "api",
                         reply |-> "api", waited |-> TRUE, waiter |-> Idle] @@ r, Tables)
       IN  session' = IF w.code = "running"
                      THEN [Served(session, TRUE) EXCEPT !.waiter = w.session]
                      ELSE session
    /\ UNCHANGED expenses

(* A request before its first statement.  `from` is the position at which it
   is sent and `reply` the position once it is answered; `served` counts the
   requests served since it was sent that changed a table or wait for it;
   `waiter` is the request that waits for a lock it holds, and `waited` tells
   that it has itself waited for one. *)
Requests(from, reply, calls) ==
    {[at |-> 1, served |-> 0, from |-> from, reply |-> reply, waited |-> FALSE,
      waiter |-> Idle] @@ r : r \in calls}

(* The next statement of the request of session s, run on the committed
   tables.  The last statement commits and answers; the answer of a request
   that is not one of the API's stream is kept in resp, with the session as
   it was before the last statement, and the body of a balance response in
   balances and transactions. *)
Runs(s) ==
    \E o \in Outcomes(s, Tables) :
    LET answered == o.code # "running"
        kept     == answered /\ s.reply # "api"
    IN  /\ session' = o.session
        /\ members' = o.db.members
        /\ expenses' = o.db.expenses
        /\ settlements' = o.db.settlements
        /\ pc' = IF s.waited THEN pc
                 ELSE IF answered THEN s.reply ELSE "api"
        /\ resp' = IF kept THEN [code |-> o.code, body |-> o.body, request |-> s] ELSE resp
        /\ balances' = IF kept /\ s.op = "compute_balances" THEN o.body
                       ELSE IF kept /\ s.op = "get_balance_response" THEN o.body.balances
                       ELSE balances
        /\ transactions' = IF kept /\ s.op = "get_balance_response"
                           THEN o.body.simplified_debts ELSE transactions
        /\ UNCHANGED <<owner_user_id, accounts, refresh_tokens>>

(* A request of the API opens a session and runs its first statement.  One
   request is in flight at a time; the requests below are served between its
   statements. *)
OpenRequest(r) ==
    /\ pc = "api"
    /\ session = Idle
    /\ r.op = "create_expense" => Len(expenses) < MaxExpenses
    /\ r.op = "create_settlement" => Len(settlements) < MaxSettlements
    /\ Runs(r)

(* The call under study is sent from position r.from. *)
Call(r) ==
    /\ pc = r.from
    /\ session = Idle
    /\ Runs(r)

(* The next statement of the request in flight.  A request that has waited
   for the request under study goes on after that one is answered. *)
NextStatement ==
    /\ session # Idle
    /\ pc = "api" \/ session.waited
    /\ Runs(session)

(* The actions below serve a whole request between two statements of the
   request in flight: no other request commits while it runs. *)
PostExpense(caller, data) ==
    /\ pc = "api"
    /\ MayServe
    /\ Len(expenses) + ExpensesInFlight < MaxExpenses
    /\ expenses' = create_expense(expenses, members, caller, data).expenses
    /\ session' = Served(session, expenses' # expenses)
    /\ UNCHANGED <<members, settlements, resp>>
    /\ UNCHANGED <<accounts, refresh_tokens>>
    /\ Frame

PatchExpense(caller, id, data) ==
    /\ pc = "api"
    /\ MayServe
    /\ \/ Waits([op |-> "edit_expense", id |-> id, caller |-> caller, data |-> data], id)
       \/ /\ ~HoldsRowLock(session, id)
          /\ LET r == edit_expense(expenses, members, owner_user_id, id, caller, data)
             IN  /\ expenses' = r.expenses
                 /\ session' = Served(IF r.code = "OK"
                                         /\ ReplacesSplits(expenses[id], data)
                                      THEN SplitRowsReplaced(session, id) ELSE session,
                                      r.expenses # expenses)
    /\ UNCHANGED <<members, settlements, resp>>
    /\ UNCHANGED <<accounts, refresh_tokens>>
    /\ Frame

PutExpense(caller, id, data) ==
    /\ pc = "api"
    /\ MayServe
    /\ \/ Waits([op |-> "update_expense", id |-> id, caller |-> caller, data |-> data],
                id)
       \/ /\ ~HoldsRowLock(session, id)
          /\ LET r == update_expense(expenses, id, caller, data)
             IN  /\ expenses' = r.expenses
                 /\ session' = Served(IF r.code = "OK" /\ Has(data, "splits")
                                      THEN SplitRowsReplaced(session, id) ELSE session,
                                      r.code = "OK")
    /\ UNCHANGED <<members, settlements, resp>>
    /\ UNCHANGED <<accounts, refresh_tokens>>
    /\ Frame

DeleteExpense(caller, id, now) ==
    /\ pc = "api"
    /\ MayServe
    /\ \/ Waits([op |-> "delete_expense", id |-> id, caller |-> caller, now |-> now],
                id)
       \/ /\ ~HoldsRowLock(session, id)
          /\ expenses' = delete_expense(expenses, members, owner_user_id, id, caller,
                                        now).expenses
          /\ session' = Served(session, expenses' # expenses)
    /\ UNCHANGED <<members, settlements, resp>>
    /\ UNCHANGED <<accounts, refresh_tokens>>
    /\ Frame

PostSettlement(caller, data) ==
    /\ pc = "api"
    /\ MayServe
    /\ Len(settlements) + SettlementsInFlight < MaxSettlements
    /\ settlements' = create_settlement(settlements, members, caller, data).settlements
    /\ session' = Served(session, settlements' # settlements)
    /\ UNCHANGED <<members, expenses, resp>>
    /\ UNCHANGED <<accounts, refresh_tokens>>
    /\ Frame

PostMember(caller, target) ==
    /\ pc = "api"
    /\ MayServe
    /\ members' = add_member(members, owner_user_id, caller, target).members
    /\ session' = Served(session, members' # members)
    /\ UNCHANGED <<expenses, settlements, resp>>
    /\ UNCHANGED <<accounts, refresh_tokens>>
    /\ Frame

DeleteMember(caller, target) ==
    /\ pc = "api"
    /\ MayServe
    /\ LET r == remove_member(members, owner_user_id, caller, target)
       IN  /\ members' = r.members
           /\ session' = Served(IF r.code = "OK" THEN MembershipDeleted(session, target)
                                ELSE session, r.code = "OK")
    /\ UNCHANGED <<expenses, settlements, resp>>
    /\ UNCHANGED <<accounts, refresh_tokens>>
    /\ Frame

(* GET /balances writes nothing: the response is the value of
   get_balance_response on the tables. *)
GetBalances(caller, category) ==
    /\ pc = "api"
    /\ get_balance_response(expenses, settlements, members, caller, category).code
           \in {"OK", "FORBIDDEN", "INTERNAL_ERROR"}
    /\ UNCHANGED <<members, expenses, settlements, resp>>
    /\ UNCHANGED <<accounts, refresh_tokens, session>>
    /\ Frame

(* The requests of the API that run statement by statement: for each
   handler the bodies that take its branches. *)
TwoShares == <<[user_id |-> 1, amount |-> 1], [user_id |-> 2, amount |-> 1]>>

OneShare == <<[user_id |-> 1, amount |-> 1]>>

OpenCreateBodies ==
    {Body(CreateKeys, payer, 2, EQUAL, "other", <<>>) : payer \in ApiUsers}
    \cup {Body(CreateKeys \cup {"splits"}, 1, 2, CUSTOM, "other", TwoShares)}

OpenPatchBodies ==
    {Body({"paid_by_user_id"}, payer, 0, None, None, <<>>) : payer \in ApiUsers}
    \cup {Body({"split_mode", "amount"}, 0, 2, EQUAL, None, <<>>),
          Body({"amount", "splits"}, 0, 1, None, None, OneShare),
          Body({"amount", "splits"}, 0, 2, None, None, TwoShares)}

OpenPutBodies ==
    {Body({"paid_by_user_id"}, payer, 0, None, None, <<>>) : payer \in ApiUsers}
    \cup {Body({"amount"}, 0, 2, None, None, <<>>),
          WithStringAmount(Body({"amount"}, 0, 2, None, None, <<>>)),
          Body({"splits"}, 0, 0, None, None, OneShare)}

ExpenseRequests(users, creates, patches) ==
    [op : {"create_expense"}, caller : users, data : creates]
    \cup [op : {"edit_expense"}, caller : users, id : ExpenseIds, data : patches]
    \cup [op : {"delete_expense"}, caller : users, id : ExpenseIds, now : Times]

MemberRequests(users) ==
    [op : {"add_member", "remove_member"}, caller : users, target : users]

SettlementRequests(users, bodies) ==
    [op : {"create_settlement"}, caller : users, data : bodies]

BalanceRequests(users, categories) ==
    [op : {"get_balance_response"}, caller : users, category : categories]

ServiceRequests ==
    Requests("api", "api", ExpenseRequests(ApiUsers, OpenCreateBodies, OpenPatchBodies)
                           \cup MemberRequests(ApiUsers))

GroupRequests ==
    ServiceRequests
    \cup Requests("api", "api", SettlementRequests(ApiUsers, ApiSettlementBodies))

ApiRequests ==
    GroupRequests
    \cup Requests("api", "api",
                  [op : {"update_expense"}, caller : ApiUsers, id : ExpenseIds,
                   data : OpenPutBodies]
                  \cup BalanceRequests(ApiUsers, {None}))

Next ==
    \/ \E r \in ApiRequests : OpenRequest(r)
    \/ NextStatement
    \/ \E caller \in ApiUsers, data \in ApiCreateBodies : PostExpense(caller, data)
    \/ \E caller \in ApiUsers, id \in ExpenseIds, data \in ApiPatchBodies : PatchExpense(caller, id, data)
    \/ \E caller \in ApiUsers, id \in ExpenseIds, data \in ApiPutBodies : PutExpense(caller, id, data)
    \/ \E caller \in ApiUsers, id \in ExpenseIds, now \in Times : DeleteExpense(caller, id, now)
    \/ \E caller \in ApiUsers, data \in ApiSettlementBodies : PostSettlement(caller, data)
    \/ \E caller \in ApiUsers, target \in ApiUsers : PostMember(caller, target)
    \/ \E caller \in ApiUsers, target \in ApiUsers : DeleteMember(caller, target)
    \/ \E caller \in ApiUsers, category \in Filters : GetBalances(caller, category)

Spec == Init /\ [][Next]_vars

(* The expense service and the membership it validates against: the calls of
   create_expense, edit_expense and delete_expense, without PUT. *)
NextService ==
    \/ \E r \in ServiceRequests : OpenRequest(r)
    \/ NextStatement
    \/ \E caller \in ApiUsers, data \in ApiCreateBodies : PostExpense(caller, data)
    \/ \E caller \in ApiUsers, id \in ExpenseIds, data \in ApiPatchBodies : PatchExpense(caller, id, data)
    \/ \E caller \in ApiUsers, id \in ExpenseIds, now \in Times : DeleteExpense(caller, id, now)
    \/ \E caller \in ApiUsers, target \in ApiUsers : PostMember(caller, target)
    \/ \E caller \in ApiUsers, target \in ApiUsers : DeleteMember(caller, target)

SpecService == Init /\ [][NextService]_vars

(* The group operations of the services: membership, the expense service and
   settlements, without PUT. *)
NextGroup ==
    \/ \E r \in GroupRequests : OpenRequest(r)
    \/ NextStatement
    \/ \E caller \in ApiUsers, data \in ApiCreateBodies : PostExpense(caller, data)
    \/ \E caller \in ApiUsers, id \in ExpenseIds, data \in ApiPatchBodies : PatchExpense(caller, id, data)
    \/ \E caller \in ApiUsers, id \in ExpenseIds, now \in Times : DeleteExpense(caller, id, now)
    \/ \E caller \in ApiUsers, data \in ApiSettlementBodies : PostSettlement(caller, data)
    \/ \E caller \in ApiUsers, target \in ApiUsers : PostMember(caller, target)
    \/ \E caller \in ApiUsers, target \in ApiUsers : DeleteMember(caller, target)

SpecGroup == Init /\ [][NextGroup]_vars

(* ============== compute_balances on bounded tables of rows ============== *)
(* The specifications below study one call at a time on tables drawn from
   bounded sets of rows.  The call runs statement by statement, as every
   request does; between its statements the owner's requests named in the
   next-state relation are served and commit. *)

RowAmounts == 1..MaxRowAmount

RowIds == 1..MaxRowExpenses

(* The split rows of a stored expense: at least one row. *)
ShareArrays == SplitArraysOver(ApiUsers, RowAmounts) \ {<<>>}

(* Expense rows with their split rows.  The rows satisfy the constraints of
   the tables; the split total and the amount are independent, as they are
   after a PUT. *)
ExpenseRows ==
    {[paid_by_user_id |-> payer, amount |-> amount, split_mode |-> CUSTOM,
      category |-> "other", deleted_at |-> deleted_at, splits |-> sps]
        : payer \in ApiUsers, amount \in RowAmounts, deleted_at \in {None, "t1"},
          sps \in ShareArrays}

SettlementRows ==
    {r \in [paid_by_user_id : ApiUsers, paid_to_user_id : ApiUsers, amount : {1}]
        : r.paid_by_user_id # r.paid_to_user_id}

InitBalances ==
    /\ pc = "rows"
    /\ balances = <<>>
    /\ transactions = <<>>
    /\ owner_user_id = 1
    /\ \E m \in 0..MaxUsers : members = [k \in 1..m |-> k]
    /\ \E n \in 0..MaxRowExpenses : expenses \in [1..n -> ExpenseRows]
    /\ \E n \in 0..MaxSettlements : settlements \in [1..n -> SettlementRows]
    /\ resp = NoResponse
    /\ NoAccounts
    /\ session = Idle

NextBalances ==
    \/ \E r \in Requests("rows", "computed", [op : {"compute_balances"}, category : {None}]) :
          Call(r)
    \/ NextStatement
    \/ \E id \in RowIds : DeleteExpense(owner_user_id, id, "t2")
    \/ \E data \in ApiSettlementBodies : PostSettlement(owner_user_id, data)
    \/ \E target \in Users : DeleteMember(owner_user_id, target)

SpecBalances == InitBalances /\ [][NextBalances]_vars

(* ---------------- get_balance_response on stored rows -------------------- *)

(* Stored rows of both categories: the split total is the amount or one
   cent less. *)
CategoryRows ==
    {[paid_by_user_id |-> payer, amount |-> shares[1], split_mode |-> CUSTOM,
      category |-> category, deleted_at |-> deleted_at, splits |-> shares[2]]
        : payer \in ApiUsers, category \in Categories, deleted_at \in {None, "t1"},
          shares \in {<<1, OneShare>>, <<2, OneShare>>, <<2, TwoShares>>}}

InitResponse ==
    /\ pc = "request"
    /\ balances = <<>>
    /\ transactions = <<>>
    /\ owner_user_id = 1
    /\ \E m \in 1..MaxApiUsers : members = [k \in 1..m |-> k]
    /\ \E n \in 0..MaxRowExpenses : expenses \in [1..n -> CategoryRows]
    /\ \E n \in 0..MaxSettlements : settlements \in [1..n -> SettlementRows]
    /\ resp = NoResponse
    /\ NoAccounts
    /\ session = Idle

(* GET /groups/<id>/balances[?category=...]: balances and transactions keep
   the balance map and the simplified debts of the response; a raised
   AppError carries neither. *)
NextResponse ==
    \/ \E r \in Requests("request", "responded", BalanceRequests(ApiUsers, Filters)) : Call(r)
    \/ NextStatement
    \/ \E id \in RowIds : DeleteExpense(owner_user_id, id, "t2")
    \/ \E target \in ApiUsers \ {owner_user_id} : DeleteMember(owner_user_id, target)

SpecResponse == InitResponse /\ [][NextResponse]_vars

(* ------------------- delete_expense on stored rows ----------------------- *)

(* Stored rows whose splits sum to the amount. *)
BalancedRows == {row \in ExpenseRows : SplitSum(row.splits) = row.amount}

(* A group with stored expenses, settlements and members before a DELETE. *)
InitStored ==
    /\ pc = "stored"
    /\ balances = <<>>
    /\ transactions = <<>>
    /\ owner_user_id = 1
    /\ \E m \in 1..MaxApiUsers : members = [k \in 1..m |-> k]
    /\ \E n \in 0..MaxRowExpenses : expenses \in [1..n -> BalancedRows]
    /\ \E n \in 0..MaxSettlements : settlements \in [1..n -> SettlementRows]
    /\ resp = NoResponse
    /\ NoAccounts
    /\ session = Idle

(* GET /groups/<id>/balances by the caller whose DELETE was answered 204. *)
BalancesAfterDelete ==
    {r \in Requests("deleted", "balanced", BalanceRequests(ApiUsers, {None}))
        : resp.code = "OK" /\ r.caller = resp.request.caller}

(* DELETE /expenses/<id> on the stored rows, then the caller's GET of the
   balances. *)
NextStored ==
    \/ \E r \in Requests("stored", "deleted",
                         [op : {"delete_expense"}, caller : ApiUsers, id : RowIds,
                          now : {"t2"}]) : Call(r)
    \/ \E r \in BalancesAfterDelete : Call(r)
    \/ NextStatement
    \/ \E id \in RowIds : DeleteExpense(owner_user_id, id, "t1")
    \/ \E data \in ApiSettlementBodies : PostSettlement(owner_user_id, data)

SpecStored == InitStored /\ [][NextStored]_vars

(* ------------- simplified debts recorded as settlements ------------------ *)

(* Stored rows of three users whose splits sum to the amount. *)
RepayRows ==
    BalancedRows
    \cup {[paid_by_user_id |-> payer, amount |-> 2, split_mode |-> CUSTOM,
           category |-> "other", deleted_at |-> None,
           splits |-> <<[user_id |-> 1, amount |-> 1], [user_id |-> 2, amount |-> 1]>>]
            : payer \in Users \ ApiUsers}
    \cup {[paid_by_user_id |-> payer, amount |-> 1, split_mode |-> CUSTOM,
           category |-> "other", deleted_at |-> None,
           splits |-> <<[user_id |-> 3, amount |-> 1]>>]
            : payer \in ApiUsers}

(* A group with stored expenses and settlements before GET /balances. *)
InitRepay ==
    /\ pc = "request"
    /\ balances = <<>>
    /\ transactions = <<>>
    /\ owner_user_id = 1
    /\ \E m \in 1..MaxUsers : members = [k \in 1..m |-> k]
    /\ \E n \in 0..MaxRowExpenses : expenses \in [1..n -> RepayRows]
    /\ \E n \in 0..MaxSettlements : settlements \in [1..n -> SettlementRows]
    /\ resp = NoResponse
    /\ NoAccounts
    /\ session = Idle

(* The request that follows the last response: `served` goes on counting
   over the requests of the sequence. *)
Following(reply, call) ==
    [at |-> 1, served |-> resp.request.served, from |-> pc, reply |-> reply,
     waited |-> FALSE, waiter |-> Idle] @@ call

(* The simplified debts of the first response that are still to record. *)
ToRecord == IF resp.request.op = "create_settlement" THEN resp.request.rest ELSE transactions

(* POST /groups/<id>/settlements for the first simplified debt that is still
   to record, sent by its from_user_id to its to_user_id. *)
PostTransfer ==
    /\ pc \in {"responded", "transferred"}
    /\ resp.code = "OK"
    /\ ToRecord # <<>>
    /\ LET t == Head(ToRecord)
       IN  Call(Following("transferred",
                          [op |-> "create_settlement", caller |-> t.from_user_id,
                           data |-> [paid_to_user_id |-> t.to_user_id, amount |-> t.amount],
                           rest |-> Tail(ToRecord)]))

(* GET /groups/<id>/balances once every simplified debt is recorded. *)
CallGetBalanceResponseAgain(caller) ==
    /\ pc \in {"responded", "transferred"}
    /\ resp.code = "OK"
    /\ ToRecord = <<>>
    /\ Call(Following("recomputed",
                      [op |-> "get_balance_response", caller |-> caller, category |-> None]))

NextRepay ==
    \/ \E r \in Requests("request", "responded", BalanceRequests(Users, {None})) : Call(r)
    \/ PostTransfer
    \/ \E caller \in Users : CallGetBalanceResponseAgain(caller)
    \/ NextStatement
    \/ \E id \in RowIds : DeleteExpense(owner_user_id, id, "t2")

SpecRepay == InitRepay /\ [][NextRepay]_vars

(* -------------------- edit_expense on a stored expense ------------------- *)

(* Expense rows as create_expense and edit_expense leave them: equal or
   custom mode, split amounts positive and summing to the amount, one split
   per user.  The payer and the split users may have left the group since. *)
EditableRows ==
    {row \in [paid_by_user_id : ApiUsers, amount : RowAmounts, split_mode : {EQUAL, CUSTOM},
              category : Categories, deleted_at : {None, "t1"},
              splits : SplitArraysOver(ApiUsers, RowAmounts) \ {<<>>}]
        : SplitSum(row.splits) = row.amount}

(* A group owned by user 1 with one stored expense, before a PATCH. *)
InitEdit ==
    /\ pc = "editable"
    /\ balances = <<>>
    /\ transactions = <<>>
    /\ owner_user_id = 1
    /\ \E m \in 1..MaxApiUsers : members = [k \in 1..m |-> k]
    /\ \E row \in EditableRows : expenses = <<row>>
    /\ settlements = <<>>
    /\ resp = NoResponse
    /\ NoAccounts
    /\ session = Idle

(* The PATCH bodies of the call under study. *)
EditBodies == PatchBodiesOver(ApiUsers, ApiAmounts, Categories)

(* PATCH /expenses/<id> on the stored expense: the schema, edit_expense on
   the session, and the commit that only a return of edit_expense reaches.
   resp keeps the request beside the response code. *)
NextEdit ==
    \/ \E r \in Requests("editable", "answered",
                         [op : {"edit_expense"}, caller : ApiUsers, id : ExpenseIds,
                          data : EditBodies]) : Call(r)
    \/ NextStatement
    \/ \E id \in ExpenseIds : DeleteExpense(owner_user_id, id, "t2")
    \/ \E id \in ExpenseIds :
          PatchExpense(owner_user_id, id, Body({"amount", "splits"}, 0, 1, None, None, OneShare))
    \/ \E target \in ApiUsers \ {owner_user_id} : DeleteMember(owner_user_id, target)

SpecEdit == InitEdit /\ [][NextEdit]_vars

(* ------------------ create_settlement on stored rows --------------------- *)

InitSettle ==
    /\ pc = "stored"
    /\ balances = <<>>
    /\ transactions = <<>>
    /\ owner_user_id = 1
    /\ \E m \in 1..MaxApiUsers : members = [k \in 1..m |-> k]
    /\ \E n \in 0..MaxRowExpenses : expenses \in [1..n -> BalancedRows]
    /\ \E n \in 0..MaxSettlements : settlements \in [1..n -> SettlementRows]
    /\ resp = NoResponse
    /\ NoAccounts
    /\ session = Idle

(* POST /groups/<id>/settlements on the stored rows: the response has the
   code and, with 201, the warnings of the service. *)
NextSettle ==
    \/ \E r \in Requests("stored", "settled", SettlementRequests(ApiUsers, SettlementBodies)) :
          Call(r)
    \/ NextStatement
    \/ \E id \in RowIds : DeleteExpense(owner_user_id, id, "t2")
    \/ \E caller \in ApiUsers, data \in ApiSettlementBodies : PostSettlement(caller, data)
    \/ \E target \in ApiUsers \ {owner_user_id} : DeleteMember(owner_user_id, target)

SpecSettle == InitSettle /\ [][NextSettle]_vars

(* --------------- _compute_equal_splits on drawn arguments ---------------- *)

Participants == 1..MaxParticipants

(* The lists of distinct participants, in every order. *)
ParticipantLists ==
    UNION {{ids \in [1..n -> Participants] : \A i, j \in 1..n : ids[i] = ids[j] => i = j}
              : n \in 1..MaxParticipants}

(* An expense of equal mode before its splits are computed: members holds
   participant_ids, the expense the amount and the payer. *)
InitEqual ==
    /\ pc = "equal"
    /\ balances = <<>>
    /\ transactions = <<>>
    /\ owner_user_id = 1
    /\ members \in ParticipantLists
    /\ \E amount \in 1..MaxShareAmount, payer \in Participants :
         expenses = <<[paid_by_user_id |-> payer, amount |-> amount, split_mode |-> EQUAL,
                       category |-> "other", deleted_at |-> None, splits |-> <<>>]>>
    /\ settlements = <<>>
    /\ resp = NoResponse
    /\ NoAccounts
    /\ session = Idle

(* _compute_equal_splits with its sanity check: the computed sum differing
   from the amount raises INTERNAL_ERROR. *)
CallComputeEqualSplits ==
    /\ pc = "equal"
    /\ LET splits == _compute_equal_splits(expenses[1].amount, members,
                                           expenses[1].paid_by_user_id)
       IN  IF SplitSum(splits) # expenses[1].amount
           THEN pc' = "INTERNAL_ERROR" /\ UNCHANGED expenses
           ELSE pc' = "splits" /\ expenses' = [expenses EXCEPT ![1].splits = splits]
    /\ UNCHANGED <<balances, transactions, owner_user_id, members, settlements, resp>>
    /\ UNCHANGED <<accounts, refresh_tokens, session>>

NextEqual == CallComputeEqualSplits

SpecEqual == InitEqual /\ [][NextEqual]_vars

(* ------------------------------ the auth routes -------------------------- *)

Usernames == {"ann", "bob"}

Emails == {"ann@x", "bob@x"}

(* RegisterSchema: a password has at least 8 characters, a letter and a
   digit *)
MinPasswordLength == 8

(* the password of the given length that ends in the digit *)
Password(length, digit) == [k \in 1..length |-> IF k = length THEN digit ELSE "a"]

(* Two short passwords, and two that differ after their first 72 bytes. *)
Passwords ==
    {Password(length, digit) : length \in {MinPasswordLength, BcryptMaxBytes + 1},
                               digit \in {"1", "2"}}

RawTokens == 1..MaxTokens

AuthTimes == 1..MaxAuthTime

InitAuth ==
    /\ pc = "auth"
    /\ balances = <<>>
    /\ transactions = <<>>
    /\ owner_user_id = 0
    /\ members = <<>>
    /\ expenses = <<>>
    /\ settlements = <<>>
    /\ resp = NoResponse
    /\ NoAccounts
    /\ session = Idle

GroupFrame ==
    UNCHANGED <<pc, balances, transactions, owner_user_id, members, expenses, settlements, resp>>

(* the committed tables of the auth service *)
AuthTables == [accounts |-> accounts, refresh_tokens |-> refresh_tokens]

(* The last statement of a request: what the INSERTs and the commit leave. *)
AuthEnds(r) ==
    Ends(r.code, <<>>, [accounts |-> r.accounts, refresh_tokens |-> r.refresh_tokens])

(* POST /auth/register: register_user
   1 the SELECT by email   2 the SELECT by username   3 bcrypt.hashpw, the
   INSERTs of the user and of the refresh token, commit.  users.email and users.username are
   unique: the INSERT of a name committed in between ends in an
   IntegrityError. *)
register_user_statement(s, db) ==
    CASE s.at = 1 ->
           IF \E k \in DOMAIN db.accounts : db.accounts[k].email = s.email
           THEN Ends("DUPLICATE_EMAIL", <<>>, db)
           ELSE Goes([s EXCEPT !.at = 2], db)
      [] s.at = 2 ->
           IF \E k \in DOMAIN db.accounts : db.accounts[k].username = s.username
           THEN Ends("DUPLICATE_USERNAME", <<>>, db)
           ELSE Goes([s EXCEPT !.at = 3], db)
      [] s.at = 3 ->
           IF TooLong(s.password, s.bcrypt) THEN Ends("INTERNAL_ERROR", <<>>, db)
           ELSE IF \E k \in DOMAIN db.accounts :
                 db.accounts[k].email = s.email \/ db.accounts[k].username = s.username
           THEN Ends("INTERNAL_ERROR", <<>>, db)
           ELSE AuthEnds(_create_refresh_token(
                             db.accounts, db.refresh_tokens,
                             Append(db.accounts, [username |-> s.username, email |-> s.email,
                                                  password_hash |-> hashpw(s.password)]),
                             Len(db.accounts) + 1, s.raw_token, s.now))

(* POST /auth/login: login_user
   1 the SELECT by username and the password check   2 the INSERT of the
   refresh token, commit *)
login_user_statement(s, db) ==
    LET found == {k \in DOMAIN db.accounts : db.accounts[k].username = s.username}
    IN  CASE s.at = 1 ->
               IF found = {} THEN Ends("INVALID_CREDENTIALS", <<>>, db)
               ELSE IF TooLong(s.password, s.bcrypt) THEN Ends("INTERNAL_ERROR", <<>>, db)
               ELSE IF \A k \in found : ~checkpw(s.password, db.accounts[k].password_hash)
               THEN Ends("INVALID_CREDENTIALS", <<>>, db)
               ELSE Goes([at |-> 2, user_id |-> CHOOSE k \in found : TRUE] @@ s, db)
          [] s.at = 2 ->
               AuthEnds(_create_refresh_token(db.accounts, db.refresh_tokens, db.accounts,
                                              s.user_id, s.raw_token, s.now))

(* POST /auth/logout: logout_user
   1 the SELECT by token_hash   2 the UPDATE of revoked on the loaded row,
   commit *)
logout_user_statement(s, db) ==
    LET found == TokenRecords(db.refresh_tokens, _hash_token(s.raw_token))
    IN  CASE s.at = 1 ->
               IF found = {} \/ \A k \in found : db.refresh_tokens[k].revoked
               THEN Ends("REFRESH_TOKEN_INVALID", <<>>, db)
               ELSE Goes([at |-> 2, record |-> CHOOSE k \in found : TRUE] @@ s, db)
          [] s.at = 2 ->
               Ends("OK", <<>>, [db EXCEPT !.refresh_tokens[s.record].revoked = TRUE])

(* the next statement of the auth request of session s; refresh_access_token
   has a single SELECT and writes nothing *)
AuthStatement(s, db) ==
    CASE s.op = "register_user" -> register_user_statement(s, db)
      [] s.op = "login_user"    -> login_user_statement(s, db)
      [] s.op = "logout_user"   -> logout_user_statement(s, db)

AuthRuns(s) ==
    LET o == AuthStatement(s, AuthTables)
    IN  /\ session' = o.session
        /\ accounts' = o.db.accounts
        /\ refresh_tokens' = o.db.refresh_tokens
        /\ GroupFrame

(* The auth requests that run statement by statement. *)
AuthRequests ==
    Requests("auth", "auth",
             [op : {"register_user"}, username : Usernames, email : Emails,
              password : {Password(BcryptMaxBytes + 1, "1")}, raw_token : RawTokens,
              now : {1}, bcrypt : BcryptReleases]
             \cup [op : {"login_user"}, username : Usernames,
                   password : {Password(BcryptMaxBytes + 1, "2")},
                   raw_token : RawTokens, now : {1}, bcrypt : BcryptReleases]
             \cup [op : {"logout_user"}, raw_token : RawTokens])

OpenAuthRequest(r) ==
    /\ pc = "auth"
    /\ session = Idle
    /\ AuthRuns(r)

NextAuthStatement ==
    /\ pc = "auth"
    /\ session # Idle
    /\ AuthRuns(session)

(* The actions below serve a whole auth request between two statements of
   the request in flight. *)
Register(username, email, password, raw_token, now, bcrypt) ==
    /\ pc = "auth"
    /\ MayServe
    /\ LET r == register_user(accounts, refresh_tokens, username, email, password,
                              raw_token, now, bcrypt)
       IN  /\ accounts' = r.accounts
           /\ refresh_tokens' = r.refresh_tokens
           /\ session' = Served(session, r.code = "OK")
    /\ GroupFrame

Login(username, password, raw_token, now, bcrypt) ==
    /\ pc = "auth"
    /\ MayServe
    /\ LET r == login_user(accounts, refresh_tokens, username, password, raw_token, now,
                           bcrypt)
       IN  /\ accounts' = r.accounts
           /\ refresh_tokens' = r.refresh_tokens
           /\ session' = Served(session, r.code = "OK")
    /\ GroupFrame

(* POST /auth/refresh writes nothing: the access token it returns is not
   stored. *)
Refresh(raw_token, now) ==
    /\ pc = "auth"
    /\ refresh_access_token(refresh_tokens, raw_token, now).code = "OK"
    /\ UNCHANGED <<accounts, refresh_tokens, session>>
    /\ GroupFrame

Logout(raw_token) ==
    /\ pc = "auth"
    /\ MayServe
    /\ LET r == logout_user(refresh_tokens, raw_token)
       IN  /\ refresh_tokens' = r.refresh_tokens
           /\ session' = Served(session, r.code = "OK")
    /\ UNCHANGED accounts
    /\ GroupFrame

NextAuth ==
    \/ \E r \in AuthRequests : OpenAuthRequest(r)
    \/ NextAuthStatement
    \/ \E username \in Usernames, email \in Emails, password \in Passwords,
          raw_token \in RawTokens, now \in AuthTimes, bcrypt \in BcryptReleases :
            Register(username, email, password, raw_token, now, bcrypt)
    \/ \E username \in Usernames, password \in Passwords,
          raw_token \in RawTokens, now \in AuthTimes, bcrypt \in BcryptReleases :
            Login(username, password, raw_token, now, bcrypt)
    \/ \E raw_token \in RawTokens, now \in AuthTimes : Refresh(raw_token, now)
    \/ \E raw_token \in RawTokens : Logout(raw_token)

SpecAuth == InitAuth /\ [][NextAuth]_vars

(* ------- GET /balances concurrent with committing expense requests ------- *)

(* A group of one or two members without expenses. *)
InitConcurrent ==
    /\ pc = "api"
    /\ balances = <<>>
    /\ transactions = <<>>
    /\ owner_user_id = 1
    /\ \E m \in 1..MaxApiUsers : members = [k \in 1..m |-> k]
    /\ expenses = <<>>
    /\ settlements = <<>>
    /\ resp = NoResponse
    /\ NoAccounts
    /\ session = Idle

(* One unfiltered GET /balances, whose answer is kept, among requests of the
   expense service: those before it run statement by statement and overlap
   one another, those between its queries commit there.  No isolation level
   is configured, so each query reads what is committed when it runs (READ
   COMMITTED, the default of PostgreSQL). *)
NextConcurrent ==
    \/ \E r \in Requests("api", "responded", BalanceRequests(ApiUsers, {None})) : Call(r)
    \/ \E r \in Requests("api", "api",
                         ExpenseRequests(ApiUsers, OpenCreateBodies, OpenPatchBodies)) :
          OpenRequest(r)
    \/ NextStatement
    \/ \E caller \in ApiUsers, data \in ApiCreateBodies : PostExpense(caller, data)
    \/ \E caller \in ApiUsers, id \in ExpenseIds, data \in ApiPatchBodies :
          PatchExpense(caller, id, data)
    \/ \E caller \in ApiUsers, id \in ExpenseIds, now \in Times :
          DeleteExpense(caller, id, now)

SpecConcurrent == InitConcurrent /\ [][NextConcurrent]_vars

(* ===================== claims about compute_balances ==================== *)

ActiveIds == {k \in DOMAIN expenses : expenses[k].deleted_at = None}

(* The sum of the values of a function with a finite domain. *)
RECURSIVE FnSum(_)
FnSum(f) ==
    IF DOMAIN f = {} THEN 0
    ELSE LET x == CHOOSE y \in DOMAIN f : TRUE
         IN  f[x] + FnSum([y \in DOMAIN f \ {x} |-> f[y]])

SplitTotal(k) == FnSum([j \in DOMAIN expenses[k].splits |-> expenses[k].splits[j].amount])

Paid(u) ==
    FnSum([k \in {i \in ActiveIds : expenses[i].paid_by_user_id = u} |-> expenses[k].amount])

Share(k, u) ==
    FnSum([j \in {i \in DOMAIN expenses[k].splits : expenses[k].splits[i].user_id = u}
              |-> expenses[k].splits[j].amount])

Owed(u) == FnSum([k \in ActiveIds |-> Share(k, u)])

SettledOut(u) ==
    FnSum([k \in {i \in DOMAIN settlements : settlements[i].paid_by_user_id = u}
              |-> settlements[k].amount])

SettledIn(u) ==
    FnSum([k \in {i \in DOMAIN settlements : settlements[i].paid_to_user_id = u}
              |-> settlements[k].amount])

(* The users of the records compute_balances reads: the payers and split
   users of active expenses and the parties of settlements. *)
Recorded ==
    {expenses[k].paid_by_user_id : k \in ActiveIds}
    \cup UNION {{expenses[k].splits[j].user_id : j \in DOMAIN expenses[k].splits} : k \in ActiveIds}
    \cup {settlements[k].paid_by_user_id : k \in DOMAIN settlements}
    \cup {settlements[k].paid_to_user_id : k \in DOMAIN settlements}

CurrentMembers == {members[k] : k \in DOMAIN members}

BalanceTotal == FnSum([k \in DOMAIN balances |-> balances[k][2]])

(* The call was answered on the sets of rows it was sent on: no request
   committed between its statements, so the tables are what every one of its
   queries read. *)
ComputedOnTables == pc = "computed" /\ resp.request.served = 0

(* C1: when the splits of every active expense sum exactly to its amount,
   the map compute_balances returns for category=None on these expenses,
   settlements and members has values that sum to exactly zero, whatever the
   settlements and the member set. *)
C1_ZeroSum ==
    (ComputedOnTables /\ \A k \in ActiveIds : SplitTotal(k) = expenses[k].amount)
        => BalanceTotal = 0

(* Two active expenses of different payers, a settlement, and a non-zero
   balance in the returned map. *)
C1_Witness ==
    /\ ComputedOnTables
    /\ \A k \in ActiveIds : SplitTotal(k) = expenses[k].amount
    /\ Cardinality(ActiveIds) = 2
    /\ expenses[1].paid_by_user_id # expenses[2].paid_by_user_id
    /\ Len(settlements) = 1
    /\ \E k \in DOMAIN balances : balances[k][2] # 0
    /\ BalanceTotal = 0

(* C3: for category=None the returned map has exactly one entry for every
   current member and every user of the records read (payer or split user of
   an active expense, party of a settlement); the entry is what the user paid
   on active expenses, minus the user's splits on active expenses, plus the
   settlements the user paid, minus the settlements the user received; a
   member without such records has the entry 0. *)
C3_BalanceFormula ==
    ComputedOnTables =>
        /\ \A u \in CurrentMembers \cup Recorded :
             /\ Cardinality({k \in DOMAIN balances : balances[k][1] = u}) = 1
             /\ \A k \in DOMAIN balances :
                  balances[k][1] = u =>
                      balances[k][2] = Paid(u) - Owed(u) + SettledOut(u) - SettledIn(u)
        /\ \A k \in DOMAIN balances : balances[k][1] \in CurrentMembers \cup Recorded
        /\ \A u \in CurrentMembers \ Recorded :
             \E k \in DOMAIN balances : balances[k] = <<u, 0>>

(* A user with all four kinds of record, next to a member without records
   and a soft-deleted expense that is not counted. *)
C3_Witness ==
    /\ ComputedOnTables
    /\ \E u \in Users :
         /\ Paid(u) > 0 /\ Owed(u) > 0
         /\ SettledOut(u) + SettledIn(u) > 0
         /\ \E k \in DOMAIN balances :
              balances[k] = <<u, Paid(u) - Owed(u) + SettledOut(u) - SettledIn(u)>>
    /\ \E u \in CurrentMembers \ Recorded : \E k \in DOMAIN balances : balances[k] = <<u, 0>>
    /\ \E k \in DOMAIN expenses : expenses[k].deleted_at # None

(* ============== claims about category-filtered balances ================= *)

UnfilteredTotal ==
    LET bal == compute_balances(expenses, settlements, members, None)
    IN  FnSum([k \in DOMAIN bal |-> bal[k][2]])

ActiveIdsIn(category) == {k \in ActiveIds : expenses[k].category = category}

PaidIn(u, category) ==
    FnSum([k \in {i \in ActiveIdsIn(category) : expenses[i].paid_by_user_id = u}
              |-> expenses[k].amount])

OwedIn(u, category) == FnSum([k \in ActiveIdsIn(category) |-> Share(k, u)])

(* Every list of settlement rows the group can hold. *)
SettlementLists == UNION {[1..n -> SettlementRows] : n \in 0..MaxSettlements}

(* The balance map of a successful category-filtered response, computed on
   the tables as they are: no request committed between its queries. *)
FilteredResponse ==
    /\ pc = "responded"
    /\ resp.code = "OK"
    /\ resp.request.category # None
    /\ resp.request.served = 0

(* C12: with a category, compute_balances ignores the settlements (the map
   is the same for every list of settlements), counts only the active
   expenses of that category and the splits of exactly those expenses, and
   has every member at exactly 0 when no active expense has the category. *)
C12_FilteredBalances ==
    FilteredResponse =>
        /\ \A setts \in SettlementLists :
             compute_balances(expenses, setts, members, resp.request.category) = balances
        /\ \A k \in DOMAIN balances :
             balances[k][2] = PaidIn(balances[k][1], resp.request.category)
                                - OwedIn(balances[k][1], resp.request.category)
        /\ ActiveIdsIn(resp.request.category) = {} =>
             /\ Keys(balances) = CurrentMembers
             /\ \A k \in DOMAIN balances : balances[k][2] = 0

(* A filtered map with a non-zero entry, next to a settlement and an active
   expense of the other category, neither of which is counted. *)
C12_Witness ==
    /\ FilteredResponse
    /\ Len(settlements) = 1
    /\ \E k \in DOMAIN balances : balances[k][2] # 0
    /\ \E k \in ActiveIds : expenses[k].category # resp.request.category

(* C13 as stated: a category-filtered map of a group with an active expense
   of that category and at least one settlement does not sum to zero. *)
C13_FilteredSumNotZero ==
    (FilteredResponse /\ ActiveIdsIn(resp.request.category) # {} /\ Len(settlements) >= 1)
        => BalanceTotal # 0

(* C13, amended: the values of a category-filtered map sum to the amounts of
   the counted expenses minus their split totals, whatever the settlements;
   the sum is zero when the splits of every counted expense sum to its
   amount. *)
C13_FilteredSumIsSplitGap ==
    FilteredResponse =>
        /\ BalanceTotal = FnSum([k \in ActiveIdsIn(resp.request.category)
                                    |-> expenses[k].amount - SplitTotal(k)])
        /\ (\A k \in ActiveIdsIn(resp.request.category) : SplitTotal(k) = expenses[k].amount)
               => BalanceTotal = 0

(* A filtered map over a consistent active expense of the category in a
   group with a settlement: entries differ from zero and sum to zero. *)
C13_Witness ==
    /\ FilteredResponse
    /\ ActiveIdsIn(resp.request.category) # {}
    /\ \A k \in ActiveIdsIn(resp.request.category) : SplitTotal(k) = expenses[k].amount
    /\ Len(settlements) = 1
    /\ \E k \in DOMAIN balances : balances[k][2] # 0
    /\ BalanceTotal = 0

(* C14: for a caller who is a member, get_balance_response fails with
   INTERNAL_ERROR exactly when no category is given and the balances
   computed on the tables do not sum to zero; the failure carries no balances
   and no simplified debts and leaves the expenses, settlements and members
   as they are.  Otherwise the response is OK with the computed map; the
   simplified debts are those of simplify_debts when no category is given
   (and the sum is zero), and the empty list for every filtered request,
   whose sum is not checked.  The step is the one that answers a request
   between whose queries no other request committed. *)
C14_IntegrityCheck ==
    [][(/\ pc' = "responded"
        /\ resp'.request.served = 0
        /\ IsMember(members, resp'.request.caller)) =>
              LET category == resp'.request.category
                  bal   == compute_balances(expenses, settlements, members, category)
                  total == FnSum([k \in DOMAIN bal |-> bal[k][2]])
              IN  /\ resp'.code = "INTERNAL_ERROR" <=> (category = None /\ total # 0)
                  /\ resp'.code = "INTERNAL_ERROR" =>
                         /\ balances' = <<>> /\ transactions' = <<>>
                         /\ UNCHANGED <<expenses, settlements, members>>
                  /\ resp'.code # "INTERNAL_ERROR" =>
                         /\ resp'.code = "OK" /\ balances' = bal
                         /\ transactions' = IF category = None THEN simplify_debts(bal)
                                                               ELSE <<>>
       ]_vars

(* An unfiltered request on rows whose balances do not sum to zero was
   answered with INTERNAL_ERROR and without balances. *)
C14_Witness ==
    /\ pc = "responded"
    /\ resp.code = "INTERNAL_ERROR"
    /\ resp.request.category = None
    /\ resp.request.served = 0
    /\ UnfilteredTotal # 0
    /\ balances = <<>> /\ transactions = <<>>
    /\ Len(expenses) = MaxRowExpenses

(* ==================== claims about delete_expense ======================= *)

(* The stored expenses without the row at position id. *)
WithoutExpense(exps, id) == SelectSeq([k \in DOMAIN exps |-> [row |-> exps[k], at |-> k]],
                                      LAMBDA x : x.at # id)

RowsOf(tagged) == [k \in DOMAIN tagged |-> tagged[k].row]

(* C15: after a delete_expense that succeeds, the balance map (without and
   with a category) is the map computed as if the expense and its splits had
   never been stored: the other active expenses, their splits and all
   settlements count as before, and the split rows of the deleted expense
   are still stored.  The first conjunct is the step that answers the DELETE,
   the second the step that answers the caller's GET of the balances when no
   request committed between its queries. *)
C15_DeletedNeverCounted ==
    [][/\ (pc' = "deleted" /\ resp'.code = "OK") =>
              LET id == resp'.request.id
              IN  /\ IsDeleted(expenses'[id])
                  /\ expenses'[id].splits = expenses[id].splits
                  /\ expenses'[id].splits # <<>>
                  /\ \A category \in Filters :
                       compute_balances(expenses', settlements', members', category)
                         = compute_balances(RowsOf(WithoutExpense(expenses', id)),
                                            settlements', members', category)
       /\ (pc' = "balanced" /\ resp'.code = "OK" /\ resp'.request.served = 0) =>
              \A id \in DOMAIN expenses' :
                  IsDeleted(expenses'[id]) =>
                      balances' = compute_balances(RowsOf(WithoutExpense(expenses', id)),
                                                   settlements', members', None)
      ]_vars

(* The balances were read after a delete on a group of two expenses: one of
   them is still active and counted, a settlement counts too, the balances
   differ from zero, and the expense deleted by the request keeps its split
   rows. *)
C15_Witness ==
    /\ pc = "balanced"
    /\ resp.code = "OK"
    /\ resp.request.served = 0
    /\ Len(expenses) = 2
    /\ Cardinality(ActiveIds) = 1
    /\ \E k \in DOMAIN expenses :
         expenses[k].deleted_at = "t2" /\ expenses[k].splits # <<>>
    /\ Len(settlements) = 1
    /\ \E k \in DOMAIN balances : balances[k][2] # 0

(* C16: a soft-deleted expense cannot be edited.  Every well-formed PATCH
   (edit_expense) and every PUT (update_expense) of a member on a soft-deleted
   expense is rejected with EXPENSE_DELETED and leaves the stored expense
   (amount, payer, category, split mode and splits) as it was. *)
C16_DeletedNotEditable ==
    pc = "api" =>
        \A id \in DOMAIN expenses, caller \in CurrentMembers \cap ApiUsers :
            IsDeleted(expenses[id]) =>
                /\ \A data \in ApiPatchBodies :
                     validate_patch_coherence(data) = "OK" =>
                         edit_expense(expenses, members, owner_user_id, id, caller, data)
                             = Rejected("EXPENSE_DELETED", expenses)
                /\ \A data \in ApiPutBodies :
                     update_expense(expenses, id, caller, data)
                         = Rejected("EXPENSE_DELETED", expenses)

(* ==================== claims about create_settlement ==================== *)

(* What payer owes on the active expenses recipient paid. *)
OwesOnExpensesOf(payer, recipient) ==
    FnSum([k \in {i \in ActiveIds : expenses[i].paid_by_user_id = recipient}
              |-> Share(k, payer)])

SettledFromTo(payer, recipient) ==
    FnSum([k \in {i \in DOMAIN settlements : /\ settlements[i].paid_by_user_id = payer
                                             /\ settlements[i].paid_to_user_id = recipient}
              |-> settlements[k].amount])

BilateralDebt(payer, recipient) ==
    LET net == OwesOnExpensesOf(payer, recipient) - OwesOnExpensesOf(recipient, payer)
               - SettledFromTo(payer, recipient) + SettledFromTo(recipient, payer)
    IN  IF net < 0 THEN 0 ELSE net

(* C21: a valid create_settlement (payer and recipient are distinct
   members) always records the settlement, and it returns the OVERPAYMENT
   warning exactly when the amount exceeds the payer's current bilateral debt
   to the recipient, the debt on the tables when the settlement is recorded:
   the payer's splits on active expenses paid by the recipient, minus the
   recipient's splits on active expenses paid by the payer, minus the earlier
   settlements from payer to recipient, plus those from recipient to payer,
   floored at zero. *)
C21_OverpaymentWarning ==
    [][(/\ pc' = "settled"
        /\ resp'.request.caller \in CurrentMembers
        /\ resp'.request.data.paid_to_user_id \in CurrentMembers
        /\ resp'.request.caller # resp'.request.data.paid_to_user_id) =>
              LET caller == resp'.request.caller
                  data   == resp'.request.data
              IN  /\ resp'.code = "OK"
                  /\ settlements' = Append(settlements,
                                           [paid_by_user_id |-> caller,
                                            paid_to_user_id |-> data.paid_to_user_id,
                                            amount          |-> data.amount])
                  /\ resp'.body = IF data.amount > BilateralDebt(caller, data.paid_to_user_id)
                                  THEN <<"OVERPAYMENT">> ELSE <<>>
       ]_vars

(* ================== claims about _compute_equal_splits ================== *)

(* C22: for every positive amount and every non-empty participant list,
   _compute_equal_splits returns exactly one split per participant, in the
   order of the list, and the split amounts sum exactly to the amount: the
   sanity check never raises INTERNAL_ERROR. *)
C22_EqualSplitsSum ==
    (pc \notin {"equal"}) =>
        /\ pc = "splits"
        /\ Len(expenses[1].splits) = Len(members)
        /\ \A k \in DOMAIN members :
             /\ expenses[1].splits[k].user_id = members[k]
             /\ Cardinality({j \in DOMAIN expenses[1].splits :
                                expenses[1].splits[j].user_id = members[k]}) = 1
        /\ FnSum([k \in DOMAIN expenses[1].splits |-> expenses[1].splits[k].amount])
             = expenses[1].amount

(* An amount that three participants cannot share evenly was split. *)
C22_Witness ==
    /\ pc = "splits"
    /\ Len(members) = 3
    /\ expenses[1].amount % 3 = 2
    /\ Len(expenses[1].splits) = 3

(* The participant who receives the remainder: the payer, or the first of
   the list when the payer is not in it. *)
RemainderTaker ==
    IF \E k \in DOMAIN members : members[k] = expenses[1].paid_by_user_id
    THEN expenses[1].paid_by_user_id ELSE members[1]

FloorShare == expenses[1].amount \div Len(members)

(* C23 as stated: when the amount is not evenly divisible, every other
   participant has the rounded-down share and the payer (or the first
   participant when the payer is not one) has exactly one cent more; when
   it is evenly divisible all shares are equal. *)
C23_OneCentToPayer ==
    pc = "splits" =>
        \A k \in DOMAIN expenses[1].splits :
            expenses[1].splits[k].amount =
                IF expenses[1].amount % Len(members) # 0
                   /\ expenses[1].splits[k].user_id = RemainderTaker
                THEN FloorShare + 1 ELSE FloorShare

(* C23, amended: every other participant has the rounded-down share and the
   payer (or the first participant when the payer is not one) has the
   rounded-down share plus the whole remainder, amount - n * share, which is
   between 1 and n - 1 cents when the amount is not evenly divisible and 0
   when it is. *)
C23_RemainderToPayer ==
    pc = "splits" =>
        LET remainder == expenses[1].amount - Len(members) * FloorShare
        IN  /\ remainder = expenses[1].amount % Len(members)
            /\ \A k \in DOMAIN expenses[1].splits :
                 expenses[1].splits[k].amount =
                     IF expenses[1].splits[k].user_id = RemainderTaker
                     THEN FloorShare + remainder ELSE FloorShare

(* A remainder of two cents went to a payer who is not the first
   participant. *)
C23_Witness ==
    /\ pc = "splits"
    /\ Len(members) = 3
    /\ expenses[1].amount % 3 = 2
    /\ expenses[1].paid_by_user_id = members[2]
    /\ expenses[1].splits[2].amount = FloorShare + 2
    /\ expenses[1].splits[1].amount = FloorShare

(* ===================== claims about the auth service ==================== *)

(* logout_user has revoked the refresh token. *)
Revoked(raw_token) ==
    \E k \in TokenRecords(refresh_tokens, _hash_token(raw_token)) : refresh_tokens[k].revoked

(* Every refresh and every logout with the token is rejected. *)
Unusable(raw_token) ==
    /\ \A now \in AuthTimes :
         refresh_access_token(refresh_tokens, raw_token, now).code = "REFRESH_TOKEN_INVALID"
    /\ logout_user(refresh_tokens, raw_token)
         = [code |-> "REFRESH_TOKEN_INVALID", refresh_tokens |-> refresh_tokens]
    /\ \A r \in AuthRequests :
         (r.op = "logout_user" /\ r.raw_token = raw_token) =>
             AuthStatement(r, AuthTables).code = "REFRESH_TOKEN_INVALID"

(* C24: once logout_user has revoked a refresh token, every later
   refresh_access_token and every later logout_user with that token (every
   call sent once the revocation is committed) raises REFRESH_TOKEN_INVALID,
   whatever register, login, refresh and logout calls come in between or
   are in flight. *)
C24_RevokedStaysInvalid ==
    \A raw_token \in RawTokens : [](Revoked(raw_token) => [](Revoked(raw_token) /\ Unusable(raw_token)))

(* A revoked token of an account that has logged in again: the other token
   of the account still refreshes, and a logout is in flight. *)
C24_Witness ==
    /\ pc = "auth"
    /\ session.op = "logout_user"
    /\ \E raw_token \in RawTokens, other \in RawTokens, k, j \in DOMAIN refresh_tokens :
         /\ Revoked(raw_token) /\ Unusable(raw_token)
         /\ refresh_tokens[k].token_hash = _hash_token(raw_token)
         /\ refresh_tokens[j].token_hash = _hash_token(other)
         /\ refresh_tokens[j].user_id = refresh_tokens[k].user_id
         /\ j > k
         /\ \E now \in AuthTimes :
              refresh_access_token(refresh_tokens, other, now).code = "OK"

(* ================== claims about concurrent requests ==================== *)

(* C25: an unfiltered get_balance_response that runs concurrently with
   committing create_expense, edit_expense and delete_expense requests never
   fails the zero-sum assertion (INTERNAL_ERROR), the splits of every
   committed active expense summing to its amount. *)
C25_ConsistentSnapshot ==
    /\ \A k \in ActiveIds : SplitTotal(k) = expenses[k].amount
    /\ ~(pc = "responded" /\ resp.code = "INTERNAL_ERROR")

(* ====================== claims about edit_expense ======================= *)

EditErrors ==
    {"SPLIT_SUM_MISMATCH", "SPLIT_USER_NOT_MEMBER", "PAYER_NOT_MEMBER", "FORBIDDEN",
     "EXPENSE_DELETED"}

(* The PATCH was answered and no other request committed while it ran. *)
EditedAlone == pc = "answered" /\ resp.request.served = 0

(* C26: INV-1 is re-validated before any write on edit: whenever
   edit_expense raises SPLIT_SUM_MISMATCH, SPLIT_USER_NOT_MEMBER,
   PAYER_NOT_MEMBER, FORBIDDEN or EXPENSE_DELETED, no UPDATE of the expense
   row has been sent for what it had assigned by then (category, payer, split
   mode, amount).  Stated on the PATCH requests that no other request
   overlapped; resp.request is the session as the raising statement found
   it. *)
C26_ValidatedBeforeAnyWrite ==
    (EditedAlone /\ resp.request.op = "edit_expense" /\ resp.code \in EditErrors) =>
        ~(/\ resp.request.at > 2
          /\ \/ HoldsRowLock(resp.request, resp.request.id)
             \/ SendsUpdate(resp.request))

(* C27: after a successful edit_expense whose data holds both amount and
   splits, the stored amount is the supplied amount and the stored splits
   are exactly the supplied splits, whatever the split mode of the expense
   was before the edit. *)
C27_SuppliedSplitsStored ==
    (/\ EditedAlone
     /\ resp.code = "OK"
     /\ Has(resp.request.data, "amount")
     /\ Has(resp.request.data, "splits")) =>
        /\ expenses[1].amount = resp.request.data.amount
        /\ expenses[1].splits = resp.request.data.splits

(* C28: every split row that edit_expense (as create_expense) writes, in
   custom or equal mode, has a strictly positive amount, for every valid
   amount and every group size: the splits a PATCH leaves are positive, and
   no PATCH is answered INTERNAL_ERROR, the answer to a request whose split
   row ck_splits_amount_positive refused at the flush. *)
C28_WrittenSplitsPositive ==
    EditedAlone =>
        /\ \A k \in DOMAIN expenses[1].splits : expenses[1].splits[k].amount > 0
        /\ resp.code # "INTERNAL_ERROR"

(* ======================== claims about the API ========================== *)

(* C4: after any sequence of API requests on the group (POST, PATCH, PUT and
   DELETE of an expense, POST of a settlement, adding and removing members)
   the unfiltered balance map sums to exactly zero, so that no unfiltered
   GET /balances of a member is answered with INTERNAL_ERROR. *)
C4_NeverInternalError ==
    pc = "api" =>
        /\ UnfilteredTotal = 0
        /\ \A caller \in CurrentMembers :
             get_balance_response(expenses, settlements, members, caller, None).code = "OK"

(* C5: after any sequence of create_expense, edit_expense and delete_expense
   calls, successful or failed, the splits of every stored expense (active or
   soft-deleted, custom or equal mode) sum exactly to the expense amount. *)
C5_SplitSumInvariant ==
    pc = "api" => \A k \in DOMAIN expenses : SplitTotal(k) = expenses[k].amount

(* An edit in flight has loaded the split rows of a custom-mode expense to
   replace them; another edit has since committed an equal split between two
   members. *)
C5_Witness ==
    /\ pc = "api"
    /\ session.op = "edit_expense"
    /\ session.at = 6
    /\ session.overtaken
    /\ session.loaded.split_mode = CUSTOM
    /\ expenses[session.id].split_mode = EQUAL
    /\ Len(expenses[session.id].splits) = 2
    /\ SplitTotal(session.id) = expenses[session.id].amount

(* The users of the records compute_balances reads under a category filter:
   the payers and split users of the active expenses of the category, and
   the parties of settlements when there is no filter. *)
RecordedIn(category) ==
    LET ids == {k \in ActiveIds : category = None \/ expenses[k].category = category}
    IN  {expenses[k].paid_by_user_id : k \in ids}
        \cup UNION {{expenses[k].splits[j].user_id : j \in DOMAIN expenses[k].splits} : k \in ids}
        \cup (IF category = None
              THEN {settlements[k].paid_by_user_id : k \in DOMAIN settlements}
                   \cup {settlements[k].paid_to_user_id : k \in DOMAIN settlements}
              ELSE {})

OneEntryPerKey(d) == \A i, j \in DOMAIN d : d[i][1] = d[j][1] => i = j

(* C11 as stated: after any sequence of add_member, remove_member, create,
   edit and delete of an expense and create_settlement, the map returned by
   compute_balances has exactly one entry per current member and no other
   entry. *)
C11_KeysAreMembers ==
    pc = "api" =>
        \A category \in Filters :
            LET bal == compute_balances(expenses, settlements, members, category)
            IN  OneEntryPerKey(bal) /\ Keys(bal) = CurrentMembers

(* C11 amended: the map has exactly one entry per current member and one
   entry for every other user who is payer or split user of an active expense
   counted by the filter or, without a filter, party of a settlement; a user
   removed from the group keeps the entry. *)
C11_KeysAreMembersAndRecorded ==
    pc = "api" =>
        \A category \in Filters :
            LET bal == compute_balances(expenses, settlements, members, category)
            IN  OneEntryPerKey(bal) /\ Keys(bal) = CurrentMembers \cup RecordedIn(category)

(* A removed member still has a record that is counted while a current
   member has none. *)
C11_Witness ==
    /\ pc = "api"
    /\ Recorded \ CurrentMembers # {}
    /\ CurrentMembers \ Recorded # {}
    /\ Keys(compute_balances(expenses, settlements, members, None))
           = CurrentMembers \cup Recorded

(* The callers delete_expense accepts for the expense: members who are its
   payer or the owner of the group. *)
MayDelete(id) ==
    {u \in CurrentMembers : u = expenses[id].paid_by_user_id \/ u = owner_user_id}

(* C17: soft deletion is absorbing.  No request (POST, PATCH, DELETE,
   membership) makes a soft-deleted expense active again or changes its
   deleted_at; a repeated delete_expense by a caller who may delete it
   returns without error and leaves deleted_at, and the rest of the expense,
   at its first value. *)
C17_DeletionAbsorbing ==
    [][\A id \in DOMAIN expenses :
          IsDeleted(expenses[id]) =>
              /\ id \in DOMAIN expenses'
              /\ expenses'[id].deleted_at = expenses[id].deleted_at
              /\ \A caller \in MayDelete(id), now \in Times :
                   delete_expense(expenses, members, owner_user_id, id, caller, now)
                       = [code |-> "OK", expenses |-> expenses]
       ]_vars

(* C18: edit_expense and delete_expense change an expense only for the
   payer recorded when the expense was created or the group owner, also
   after an edit has changed paid_by_user_id: for an expense created with
   payer original and then edited successfully, every request of a caller
   other than original and the owner is rejected with FORBIDDEN and changes
   nothing. *)
C18_OnlyOriginalPayerOrOwner ==
    (pc = "api" /\ expenses = <<>>) =>
        \A creator \in Users, created \in CreateBodies :
            LET r0       == create_expense(expenses, members, creator, created)
                original == created.paid_by_user_id
            IN  r0.code = "OK" =>
                \A editor \in Users, edit \in PatchBodies :
                    LET r1 == edit_expense(r0.expenses, members, owner_user_id, 1, editor, edit)
                    IN  r1.code = "OK" =>
                        \A caller \in Users \ {original, owner_user_id} :
                            /\ \A data \in PatchBodies :
                                 validate_patch_coherence(data) = "OK" =>
                                     edit_expense(r1.expenses, members, owner_user_id, 1,
                                                  caller, data)
                                         = Rejected("FORBIDDEN", r1.expenses)
                            /\ \A now \in Times :
                                 delete_expense(r1.expenses, members, owner_user_id, 1,
                                                caller, now)
                                     = Rejected("FORBIDDEN", r1.expenses)

(* C19: only current members read or write the data of the group.  After
   any sequence of requests, the owner removing themselves included, no
   request of a caller who is not a member at the time of the call succeeds:
   add_member, remove_member, create, edit (PATCH), update (PUT) and delete
   expense, create settlement and get balances. *)
C19_MembersOnly ==
    pc = "api" =>
        \A caller \in ApiUsers \ CurrentMembers :
            /\ \A target \in ApiUsers :
                 /\ add_member(members, owner_user_id, caller, target).code # "OK"
                 /\ remove_member(members, owner_user_id, caller, target).code # "OK"
            /\ \A data \in ApiCreateBodies :
                 create_expense(expenses, members, caller, data).code # "OK"
            /\ \A id \in ExpenseIds :
                 /\ \A data \in ApiPatchBodies :
                      edit_expense(expenses, members, owner_user_id, id, caller, data).code # "OK"
                 /\ \A data \in ApiPutBodies :
                      update_expense(expenses, id, caller, data).code # "OK"
                 /\ \A now \in Times :
                      delete_expense(expenses, members, owner_user_id, id, caller, now).code # "OK"
            /\ \A data \in SettlementBodies :
                 create_settlement(settlements, members, caller, data).code # "OK"
            /\ \A category \in Filters :
                 get_balance_response(expenses, settlements, members, caller, category).code # "OK"

SettlementRejections == {"FORBIDDEN", "SELF_SETTLEMENT", "RECIPIENT_NOT_MEMBER"}

(* C20: every recorded settlement has a payer different from its recipient,
   and a request records a settlement only when payer and recipient are both
   members at that moment; a create_settlement rejected with FORBIDDEN,
   SELF_SETTLEMENT or RECIPIENT_NOT_MEMBER records nothing and leaves every
   balance map as it was. *)
C20_SettlementsBetweenMembers ==
    [][/\ \A k \in DOMAIN settlements :
            settlements[k].paid_by_user_id # settlements[k].paid_to_user_id
       /\ settlements' # settlements =>
            \E row \in [paid_by_user_id : CurrentMembers, paid_to_user_id : CurrentMembers,
                         amount : ApiAmounts] :
                /\ row.paid_by_user_id # row.paid_to_user_id
                /\ settlements' = Append(settlements, row)
       /\ \A caller \in ApiUsers, data \in SettlementBodies :
            LET r == create_settlement(settlements, members, caller, data)
            IN  /\ r.code \in SettlementRejections \cup {"OK"}
                /\ r.code = "OK" <=>
                       /\ caller \in CurrentMembers
                       /\ data.paid_to_user_id \in CurrentMembers
                       /\ caller # data.paid_to_user_id
                /\ r.code \in SettlementRejections =>
                       /\ r.settlements = settlements
                       /\ \A category \in Filters :
                            compute_balances(expenses, r.settlements, members, category)
                              = compute_balances(expenses, settlements, members, category)
      ]_vars

(* ============ claims about recording the simplified debts =============== *)

(* C29: from a group whose unfiltered balances sum to zero, once every
   transfer of simplify_debts is recorded as a settlement paid by its
   from_user_id to its to_user_id, and nothing else was committed since the
   balances were read, the recomputed balance of every user is zero and
   simplify_debts returns the empty list. *)
C29_RecordedTransfersSettle ==
    (pc = "recomputed" /\ resp.code # "FORBIDDEN" /\ resp.request.served = 0) =>
        /\ resp.code = "OK"
        /\ \A k \in DOMAIN balances : balances[k][2] = 0
        /\ balances # <<>>
        /\ transactions = <<>>

(* Three users, two settlements recorded for two simplified debts, and the
   recomputed map holds a zero for each of them. *)
C29_Witness ==
    /\ pc = "recomputed"
    /\ resp.code = "OK"
    /\ resp.request.served = 0
    /\ Len(settlements) >= 2
    /\ Len(balances) = 3
    /\ settlements[Len(settlements)].paid_to_user_id
           = settlements[Len(settlements) - 1].paid_to_user_id
    /\ \A k \in DOMAIN balances : balances[k][2] = 0
    /\ transactions = <<>>

(* ===================== claims about simplify_debts ====================== *)

Sum(d) == SeqSum(Values(d))

Positive(d) == {uid \in Keys(d) : Get(d, uid) > 0}
Negative(d) == {uid \in Keys(d) : Get(d, uid) < 0}
NonZero(d) == Positive(d) \cup Negative(d)

(* Net effect of a transfer list on one user, starting from zero: every
   transfer debits from_user_id and credits to_user_id. *)
RECURSIVE NetOf(_, _)
NetOf(txs, uid) ==
    IF txs = <<>> THEN 0
    ELSE (IF txs[1].to_user_id = uid THEN txs[1].amount ELSE 0)
         - (IF txs[1].from_user_id = uid THEN txs[1].amount ELSE 0)
         + NetOf(Tail(txs), uid)

Parties(txs) ==
    {txs[k].from_user_id : k \in DOMAIN txs} \cup {txs[k].to_user_id : k \in DOMAIN txs}

(* txs settles d: it touches only users of d and reproduces every balance. *)
Settles(txs, d) ==
    /\ Parties(txs) \subseteq Keys(d)
    /\ \A uid \in Keys(d) : NetOf(txs, uid) = Get(d, uid)

Simplified == pc = "simplified"

(* C2: for a zero-summing map, applying every emitted transfer to users that
   start at zero reproduces exactly the input balance of every user. *)
C2_RoundTrip ==
    (Simplified /\ Sum(balances) = 0) => Settles(transactions, balances)

C2_Witness ==
    /\ Simplified
    /\ Sum(balances) = 0
    /\ Len(transactions) >= 3
    /\ Cardinality(Positive(balances)) >= 2
    /\ Cardinality(Negative(balances)) >= 2

(* The transfers a shorter settlement could be made of: between two distinct
   users of the map, of any amount up to the money owed in total. *)
TotalOwed(d) ==
    LET pos == SelectSeq(d, IsCreditor) IN SeqSum(Values(pos))

CandidateTransfers(d) ==
    {[from_user_id |-> f, to_user_id |-> t, amount |-> a] :
        f \in Keys(d), t \in Keys(d), a \in 1..TotalOwed(d)}

ShorterSettlementExists(txs, d) ==
    \E n \in 0..(Len(txs) - 1) :
        \E alt \in [1..n -> {c \in CandidateTransfers(d) : c.from_user_id # c.to_user_id}] :
            Settles(alt, d)

RestrictTo(d, users) == SelectSeq(d, LAMBDA item : item[1] \in users)

(* C6 (as claimed): for every zero-summing map no list of transfers that
   settles the map is shorter than the one simplify_debts returns.  Settling
   each zero-summing block of a two-block partition on its own is such a
   list. *)
C6_MinimalCount ==
    (Simplified /\ Sum(balances) = 0) =>
        \A block \in SUBSET Keys(balances) :
            LET alt == simplify_debts(RestrictTo(balances, block))
                       \o simplify_debts(RestrictTo(balances, Keys(balances) \ block))
            IN  Settles(alt, balances) => Len(transactions) <= Len(alt)

(* C6 (amended): when at most four users have a nonzero balance, no list of
   transfers that settles the zero-summing map is shorter than the returned
   one. *)
C6_MinimalUpToFour ==
    (Simplified /\ Sum(balances) = 0 /\ Cardinality(NonZero(balances)) <= 4) =>
        ~ShorterSettlementExists(transactions, RestrictTo(balances, NonZero(balances)))

C6_Witness ==
    /\ Simplified
    /\ Sum(balances) = 0
    /\ Cardinality(NonZero(balances)) = 4
    /\ Len(transactions) = 3

(* C7 (as claimed): a zero-summing map with N nonzero balances yields at
   most N - 1 transfers. *)
C7_AtMostNMinusOne ==
    (Simplified /\ Sum(balances) = 0) =>
        Len(transactions) <= Cardinality(NonZero(balances)) - 1

(* C7 (amended): a zero-summing map with N >= 1 nonzero balances yields at
   most N - 1 transfers, and one with N = 0 yields none. *)
C7_AtMostNMinusOneOrNone ==
    (Simplified /\ Sum(balances) = 0) =>
        LET N == Cardinality(NonZero(balances))
        IN  IF N >= 1 THEN Len(transactions) <= N - 1 ELSE transactions = <<>>

C7_Witness ==
    /\ Simplified
    /\ Sum(balances) = 0
    /\ Cardinality(NonZero(balances)) = MaxParties
    /\ Len(transactions) = MaxParties - 1

(* C8: for every map, zero-summing or not, each emitted transfer has a
   strictly positive amount and goes from a user with a negative input
   balance to a user with a positive input balance. *)
C8_PositiveDebtorToCreditor ==
    Simplified =>
        \A k \in DOMAIN transactions :
            /\ transactions[k].amount > 0
            /\ transactions[k].from_user_id \in Negative(balances)
            /\ transactions[k].to_user_id \in Positive(balances)
            /\ transactions[k].from_user_id # transactions[k].to_user_id

C8_Witness ==
    /\ Simplified
    /\ Sum(balances) # 0
    /\ Len(transactions) >= 2
    /\ Keys(balances) \ NonZero(balances) # {}

(* C9 (as claimed): a map whose values do not sum to zero yields an empty
   transfer list. *)
C9_NonZeroSumEmpty ==
    (Simplified /\ Sum(balances) # 0) => transactions = <<>>

(* C9 (amended): a map whose values do not sum to zero yields an empty list
   exactly when it has no positive or no negative balance; otherwise it
   yields at least one transfer. *)
C9_NonZeroSumEmptyIffOneSigned ==
    (Simplified /\ Sum(balances) # 0) =>
        (transactions = <<>> <=> (Positive(balances) = {} \/ Negative(balances) = {}))

C9_Witness ==
    /\ Simplified
    /\ Sum(balances) # 0
    /\ Positive(balances) # {}
    /\ Negative(balances) # {}
    /\ transactions # <<>>

(* C10: an empty map, an all-zero map and any map without a negative or
   without a positive balance yield an empty list. *)
C10_DegenerateEmpty ==
    (Simplified /\ (Positive(balances) = {} \/ Negative(balances) = {})) =>
        transactions = <<>>

C10_Witness ==
    /\ Simplified
    /\ Len(balances) >= 2
    /\ Positive(balances) = {}
    /\ Negative(balances) # {}
    /\ Keys(balances) \ NonZero(balances) # {}
    /\ transactions = <<>>

(* Every iteration of the while loop appends one transfer, so the length of
   the returned list is the number of iterations. *)
Iterations == Len(transactions)

(* One iteration on a creditor and a debtor with positive remaining amounts
   moves at least one of the two cursors. *)
IterationAdvances ==
    \A credit \in 1..MaxBalance, debt \in 1..MaxBalance :
        LET transfer == TransferAmount(credit, debt)
        IN  AdvanceCursor(0, credit - transfer) + AdvanceCursor(0, debt - transfer) >= 1

(* C30 (as claimed): on every map, zero-summing or not, simplify_debts
   terminates and its loop runs at most (creditors + debtors - 1) times. *)
C30_LoopBound ==
    Simplified =>
        Iterations <= Len(Creditors(balances)) + Len(Debtors(balances)) - 1

(* C30 (amended): on every map, zero-summing or not, simplify_debts
   terminates; each iteration advances past at least one creditor or debtor,
   so with at least one creditor and one debtor the loop runs at most
   (creditors + debtors - 1) times, and without a creditor or without a
   debtor it does not run at all. *)
C30_LoopBoundOrNone ==
    Simplified =>
        /\ IterationAdvances
        /\ IF Creditors(balances) # <<>> /\ Debtors(balances) # <<>>
           THEN Iterations <= Len(Creditors(balances)) + Len(Debtors(balances)) - 1
           ELSE Iterations = 0

(* A map that does not sum to zero, with two creditors and three debtors, on
   which the loop ran the full four times. *)
C30_Witness ==
    /\ Simplified
    /\ Sum(balances) # 0
    /\ Len(Creditors(balances)) = 2
    /\ Len(Debtors(balances)) = 3
    /\ Iterations = 4

====
